---- MODULE Spec2Model ----
(***************************************************************************)
(* A model of the high flow NEXT settings decoder: the byte reader with    *)
(* its value / skip guards, the CRC reader, the range-checked wrappers,    *)
(* the settings aggregate, the lighting effect decoder and the frame       *)
(* envelope.                                                               *)
(*                                                                         *)
(* A reader is a record: the byte source `src`, the number of bytes        *)
(* consumed `pos`, whether a SkipReader wraps it (`skip`), whether a       *)
(* CrcReader wraps it (`crc`) and that reader's `digest`.  A call on the   *)
(* reader returns the reader after the call, carrying the call's Result:   *)
(* `err` (NoErr on Ok) and `val` (the Ok value, the guard's output).       *)
(* `firstErr` and `lateReads` are history fields: the first failure seen   *)
(* on this reader and the number of read_exact calls made after it.        *)
(***************************************************************************)
EXTENDS Integers, Sequences, FiniteSets, TLC

VARIABLES
  input,    \* the bytes of the source handed to the decoder
  origin,   \* how `input` was made: [base, kind, at, with]
  ty,       \* the type whose Decode implementation the caller invokes
  pc,       \* where the call stands
  rd,       \* the reader
  op_code   \* Frame::decode's local `op_code`

vars == <<input, origin, ty, pc, rd, op_code>>

Byte == 0..255

(***************************************************************************)
(* Bit operations on the integer widths the code uses.                     *)
(***************************************************************************)
RECURSIVE XorBits(_, _, _)
XorBits(a, b, n) ==
  IF n = 0 THEN 0
  ELSE (((a % 2) + (b % 2)) % 2) + 2 * XorBits(a \div 2, b \div 2, n - 1)

RECURSIVE AndBits(_, _, _)
AndBits(a, b, n) ==
  IF n = 0 THEN 0
  ELSE ((a % 2) * (b % 2)) + 2 * AndBits(a \div 2, b \div 2, n - 1)

Xor4 == [a \in 0..15 |-> [b \in 0..15 |-> XorBits(a, b, 4)]]
Xor8T == [a \in 0..255 |-> [b \in 0..255 |->
           16 * Xor4[a \div 16][b \div 16] + Xor4[a % 16][b % 16]]]
Xor16(a, b) == 256 * Xor8T[a \div 256][b \div 256] + Xor8T[a % 256][b % 256]

And4 == [a \in 0..15 |-> [b \in 0..15 |-> AndBits(a, b, 4)]]
And8T == [a \in 0..255 |-> [b \in 0..255 |->
           16 * And4[a \div 16][b \div 16] + And4[a % 16][b % 16]]]
BitAnd(a, b) == 256 * And8T[a \div 256][b \div 256] + And8T[a % 256][b % 256]

RECURSIVE Pow2(_)
Pow2(n) == IF n = 0 THEN 1 ELSE 2 * Pow2(n - 1)

\* `1 << n` on the u16 of the flags word: 2^n for n < 16.  For n >= 16 a
\* build with overflow checks panics (ShiftOverflows) and one without shifts
\* by n % 16.
Shl1(n) == Pow2(n % 16)
ShiftOverflows(n) == n >= 16

(***************************************************************************)
(* CRC-16/USB (crc crate, CRC_16_USB with a 256-entry table): polynomial   *)
(* 0x8005 reflected (0xA001), initial value 0xFFFF, output xor 0xFFFF.     *)
(***************************************************************************)
RECURSIVE CrcBitLoop(_, _)
CrcBitLoop(c, n) ==
  IF n = 0 THEN c
  ELSE CrcBitLoop(IF c % 2 = 1 THEN Xor16(c \div 2, 40961) ELSE c \div 2, n - 1)

CrcTable == [i \in 0..255 |-> CrcBitLoop(i, 8)]

CRC_digest == 65535

\* crc = table[(crc ^ byte) & 0xFF] ^ (crc >> 8)
DigestUpdateByte(d, b) ==
  LET t == CrcTable[Xor8T[d % 256][b]]
  IN 256 * (t \div 256) + Xor8T[t % 256][d \div 256]

\* digest.update(buf) for buf = src[lo..hi]
RECURSIVE DigestRange(_, _, _, _)
DigestRange(d, src, lo, hi) ==
  IF lo > hi THEN d
  ELSE IF lo = hi THEN DigestUpdateByte(d, src[lo])
  ELSE LET mid == (lo + hi) \div 2
           left == DigestRange(d, src, lo, mid)
       IN IF left >= 0 THEN DigestRange(left, src, mid + 1, hi) ELSE left

DigestUpdate(d, buf) == DigestRange(d, buf, 1, Len(buf))

DigestFinalize(d) == Xor16(d, 65535)

\* CRC.digest() ... update ... finalize() over the bytes `buf`
Checksum(buf) == DigestFinalize(DigestUpdate(CRC_digest, buf))

(***************************************************************************)
(* Errors (misc/io/error.rs) and the Result a call leaves on the reader.   *)
(***************************************************************************)
\* `text` holds the owned strings of a RangeError<String>; every other error
\* leaves it empty.
MkErr(k, n, v, lo, hi) ==
  [kind |-> k, name |-> n, value |-> v, min |-> lo, max |-> hi, text |-> <<>>]
NoErr == MkErr("None", "", 0, 0, 0)
IoError == MkErr("IoError", "", 0, 0, 0)
InvalidValue(n, v) == MkErr("InvalidValue", n, v, 0, 0)
RangeError(lo, hi, v) == MkErr("RangeError", "", v, lo, hi)
ChecksumMismatch == MkErr("ChecksumMismatch", "", 0, 0, 0)

\* ToString for u8 / u16 / i16: the decimal digits, most significant first,
\* without leading zeros, behind a "-" for a negative value.
DigitChars == <<"0", "1", "2", "3", "4", "5", "6", "7", "8", "9">>

Digits(n) ==
  LET all == <<n \div 10000, (n \div 1000) % 10, (n \div 100) % 10,
               (n \div 10) % 10, n % 10>>
      lead == IF n >= 10000 THEN 1 ELSE IF n >= 1000 THEN 2
              ELSE IF n >= 100 THEN 3 ELSE IF n >= 10 THEN 4 ELSE 5
  IN [i \in 1..(6 - lead) |-> DigitChars[all[lead + i - 1] + 1]]

to_string(v) == IF v < 0 THEN <<"-">> \o Digits(-v) ELSE Digits(v)

\* RangeError<T>::to_owned: min, max and val each become their string.
RangeError_to_owned(e) ==
  <<to_string(e.min), to_string(e.max), to_string(e.value)>>

\* impl From<RangeError<T>> for Error
Error_from_RangeError(e) ==
  [MkErr("RangeError", "", 0, 0, 0) EXCEPT !.text = RangeError_to_owned(e)]

\* `?` on a Result: From::from on the error, which is the identity on an
\* io Error and the conversion above on a RangeError<T>.
Error_from(e) ==
  IF e.kind = "RangeError" /\ e.text = <<>> THEN Error_from_RangeError(e) ELSE e

\* PhantomData, the output of the skip guard; None; the unit value.
Phantom == [tag |-> "PhantomData"]
None == [tag |-> "None"]
Some(v) == [tag |-> "Some", v |-> v]
Unit == [tag |-> "Unit"]

NewReader(src, isSkip) ==
  [src |-> src, pos |-> 0, skip |-> isSkip, crc |-> FALSE, digest |-> <<>>,
   ok |-> TRUE, err |-> NoErr, val |-> Unit, firstErr |-> NoErr, lateReads |-> 0]

\* Ok(v) / Err(e) as the Result of the call that leaves the reader as r.
Ok(r, v) == [r EXCEPT !.ok = TRUE, !.err = NoErr, !.val = v]
Err(r, e) ==
  [r EXCEPT !.ok = FALSE, !.err = e, !.val = Unit,
            !.firstErr = IF @.kind = "None" THEN e ELSE @]

\* `let x = f(reader)?`: an Err returns from the function at once, so a
\* reader that carries one is handed on untouched by every later statement.
Returned(p) == ~p.ok

\* The function's final `Ok(value)`, reached only when no `?` returned before.
Finish(p, v) == IF p.ok THEN Ok(p, v) ELSE p

\* A function body: its statements in program order, each a LET definition,
\* carried out first to last, then the final `Ok(value)`.
Return(stmts, v) ==
  IF stmts = <<>> THEN <<>> ELSE Finish(stmts[Len(stmts)], v)

\* The statements of a body carried out first to last, then the rest of the
\* body.
AndThen(stmts, rest) == IF stmts = <<>> THEN <<>> ELSE rest

(***************************************************************************)
(* Reader (misc/io/reader.rs) and CrcReader (misc/crc.rs).                 *)
(***************************************************************************)
\* A single read in the place of read_exact: a short source gives what is
\* left, the rest of the buffer staying zero, and no error.
Read_read_exact_partial(r, n) ==
  LET late == IF r.firstErr.kind # "None" THEN 1 ELSE 0
      end == IF r.pos + n > Len(r.src) THEN Len(r.src) ELSE r.pos + n
  IN Ok([r EXCEPT !.pos = end, !.lateReads = @ + late],
        [k \in 1..n |-> IF r.pos + k <= Len(r.src) THEN r.src[r.pos + k] ELSE 0])

\* impl Reader for X: Read.  std's read_exact on a short source consumes what
\* is left and fails with UnexpectedEof.
Read_read_exact(r, n) ==
  LET late == IF r.firstErr.kind # "None" THEN 1 ELSE 0
  IN IF r.pos + n > Len(r.src)
     THEN Err([r EXCEPT !.pos = Len(r.src), !.lateReads = @ + late], IoError)
     ELSE Ok([r EXCEPT !.pos = @ + n, !.lateReads = @ + late],
             SubSeq(r.src, r.pos + 1, r.pos + n))

\* impl Reader for CrcReader: the inner read `?`, then digest.update(buf).
\* The digest is kept as the bytes it was updated with, in order; finalize
\* folds them through the CRC table.
CrcReader_read_exact(r, n) ==
  LET inner == Read_read_exact(r, n)
  IN IF inner.ok THEN [inner EXCEPT !.digest = @ \o inner.val] ELSE inner

\* A SkipReader that reads from the byte source below the CrcReader.
SkipReader_read_exact_unwrapped(r, n) == Read_read_exact(r, n)

\* A SkipReader that answers the request itself and leaves the reader below
\* alone.
SkipReader_read_exact_detached(r, n) == Ok(r, [k \in 1..n |-> 0])

\* impl Reader for SkipReader: self.0.read_exact(buf), the reader below
\* being a CrcReader or the byte source.
SkipReader_read_exact(r, n) ==
  IF r.crc THEN CrcReader_read_exact(r, n) ELSE Read_read_exact(r, n)

\* read_exact of the reader the decoder holds
read_exact(r, n) ==
  IF r.skip THEN SkipReader_read_exact(r, n)
  ELSE IF r.crc THEN CrcReader_read_exact(r, n)
  ELSE Read_read_exact(r, n)

\* SkipGuard::get / get_mut / extract: panic!("Unable to ... in `Skip` mode!")
UsageFault == [tag |-> "panic"]

\* SkipReader::guard calling the closure with its guard, whose methods panic.
guard_called(r, v) == IF r.skip THEN UsageFault ELSE v

\* R::guard(f): f(ValueGuard) for a value reader, PhantomData (f dropped)
\* for a SkipReader.  TLC evaluates v only in the first case.
guard(r, v) == IF r.skip THEN Phantom ELSE v

\* A panic inside a closure run by R::guard: the call unwinds through every
\* caller, as an error does through `?`, and is no value of enum Error.
Panicked == MkErr("Panic", "", 0, 0, 0)

\* p is what a decoder returns when the closure it hands to R::guard does
\* not panic, `fault` whether that closure panics; a SkipReader drops the
\* closure.
Unwind(p, fault) == IF p.ok /\ ~p.skip /\ fault THEN Err(p, Panicked) ELSE p

\* The provided methods of trait Reader
Reader_skip(r, n) == Finish(read_exact(r, n), Unit)

Reader_read_u8(r) ==
  LET b == read_exact(r, 1) IN IF b.ok THEN Ok(b, b.val[1]) ELSE b

\* the two bytes taken low byte first
u16_from_le_bytes(buf) == buf[1] + 256 * buf[2]

u16_from_be_bytes(buf) == 256 * buf[1] + buf[2]

i16_from_be_bytes(buf) ==
  LET u == 256 * buf[1] + buf[2] IN IF u >= 32768 THEN u - 65536 ELSE u

Reader_read_u16be(r) ==
  LET b == read_exact(r, 2) IN IF b.ok THEN Ok(b, u16_from_be_bytes(b.val)) ELSE b

Reader_read_i16be(r) ==
  LET b == read_exact(r, 2) IN IF b.ok THEN Ok(b, i16_from_be_bytes(b.val)) ELSE b

\* A call made by a decoder on its reader: the method named f with the
\* argument a, given with the impls of Decode below.
RECURSIVE call(_, _, _)

skip(r, n) == call(r, "skip", n)
read_u8(r) == call(r, "read_u8", 0)
read_u16be(r) == call(r, "read_u16be", 0)
read_i16be(r) == call(r, "read_i16be", 0)

\* Guard::transpose_result: the value guard hands the Result on, the skip
\* guard drops it and answers Ok(PhantomData).
ValueGuard_transpose_result(res) == res

SkipGuard_transpose_result(res) == [ok |-> TRUE, val |-> Phantom, err |-> NoErr]

transpose_result(r, res) ==
  IF r.skip THEN SkipGuard_transpose_result(res)
  ELSE ValueGuard_transpose_result(res)

\* A Result leaving a decode: the value, or the error after From::from.
Question(r, res) ==
  IF res.ok THEN Ok(r, res.val) ELSE Err(r, Error_from(res.err))

(***************************************************************************)
(* Decode (misc/io/decode.rs).                                             *)
(***************************************************************************)
\* T::decode(reader) for the type named t
decode(r, t) == call(r, "decode", t)

\* The reader a SkipReader(reader) leaves, seen again as the reader below it.
SkipReader_into_inner(r, d) == [d EXCEPT !.skip = r.skip]

\* Decode::skip_bytes: Self::decode on SkipReader(reader), the value dropped.
Decode_skip_bytes(r, t) ==
  Finish(SkipReader_into_inner(r, decode([r EXCEPT !.skip = TRUE], t)), Unit)

skip_bytes(r, t) == call(r, "skip_bytes", t)

decode_opt_read(val) == Finish(val, guard(val, Some(val.val)))

decode_opt_skip(s) == Finish(s, guard(s, None))

\* Decode::decode_opt
\* decode_opt whose absent branch decodes the value instead of skipping it
Decode_decode_opt_validating(r, t, read) ==
  IF read THEN decode_opt_read(decode(r, t)) ELSE decode_opt_skip(decode(r, t))

Decode_decode_opt(r, t, read) ==
  IF read THEN decode_opt_read(decode(r, t))
  ELSE decode_opt_skip(skip_bytes(r, t))

decode_opt(r, t, read) == call(r, "decode_opt", <<t, read>>)

u8_decode(r) == LET v == read_u8(r) IN Finish(v, guard(v, v.val))
u16_decode(r) == LET v == read_u16be(r) IN Finish(v, guard(v, v.val))
i16_decode(r) == LET v == read_i16be(r) IN Finish(v, guard(v, v.val))

\* data.push(item) after `let item = T::decode(reader)?`; the list so far is
\* the value the reader carries.
Array_push(p, item) ==
  IF item.ok THEN Ok(item, guard(item, Append(p.val, item.val))) ELSE item

\* One pass of `for _ in 0..N`, the k-th: skipped once an item has failed or
\* the N items are read.
Array_step(p, k, n, t) ==
  IF p.ok /\ k <= n THEN Array_push(p, decode(p, t)) ELSE p

\* impl Decode for [T; N]: d_k is the reader after k passes.  N <= 10 in this
\* program.
Array_decode(r, n, t) ==
  LET d0 == Ok(r, guard(r, <<>>))
      d1 == Array_step(d0, 1, n, t)
      d2 == Array_step(d1, 2, n, t)
      d3 == Array_step(d2, 3, n, t)
      d4 == Array_step(d3, 4, n, t)
      d5 == Array_step(d4, 5, n, t)
      d6 == Array_step(d5, 6, n, t)
      d7 == Array_step(d6, 7, n, t)
      d8 == Array_step(d7, 8, n, t)
      d9 == Array_step(d8, 9, n, t)
      d10 == Array_step(d9, 10, n, t)
  IN <<d0, d1, d2, d3, d4, d5, d6, d7, d8, d9, d10>>[11]

(***************************************************************************)
(* Wrapped (misc/wrapped.rs) and the impl_ranged! declarations.            *)
(***************************************************************************)
Tag(b, lo, hi) == [base |-> b, min |-> lo, max |-> hi]

\* impl_ranged!(Name<base, NameTag>, min, max) of the settings modules
RangedTags ==
  [Flow               |-> Tag("u16", 0, 3000),
   AquaBusAddress     |-> Tag("u8", 58, 61),
   CurrentDraw        |-> Tag("u16", 500, 2000),
   FlowCorrection     |-> Tag("i16", -5000, 5000),
   TempOffset         |-> Tag("i16", -1500, 1500),
   PowerDamping       |-> Tag("u16", 0, 10000),
   Conductivity       |-> Tag("u16", 0, 2000),
   ConductivityOffset |-> Tag("i16", -500, 500),
   StartupDelay       |-> Tag("u8", 0, 100),
   Temperature        |-> Tag("u16", 0, 10000),
   WaterQuality       |-> Tag("u16", 0, 10000),
   ChartInterval      |-> Tag("u16", 1, 60000),
   NextPageInterval   |-> Tag("u8", 3, 60),
   EffectPercent      |-> Tag("u16", 0, 100),
   EffectDelay        |-> Tag("u16", 0, 100),
   EffectWidth        |-> Tag("u16", 1, 100),
   RainItems          |-> Tag("u16", 1, 4),
   SoundEffectSpeed   |-> Tag("u16", 1, 10)]

\* impl_verify_simple!(Name<base, NameTag>)
SimpleTags == [Brightness |-> Tag("u8", 0, 255)]

RangedNames == DOMAIN RangedTags
TagOf(tag) == IF tag \in RangedNames THEN RangedTags[tag] ELSE SimpleTags[tag]

min_inclusive(tag) == RangedTags[tag].min
max_inclusive(tag) == RangedTags[tag].max

VOk(v) == [ok |-> TRUE, val |-> v, err |-> NoErr]
VErr(e) == [ok |-> FALSE, val |-> 0, err |-> e]

\* The range test without its upper bound.
Ranged_verify_lower_only(tag, val) ==
  LET min == min_inclusive(tag)
      max == max_inclusive(tag)
  IN IF val < min THEN VErr(RangeError(min, max, val)) ELSE VOk(val)

\* The range test with the upper bound taken as exclusive.
Ranged_verify_exclusive(tag, val) ==
  LET min == min_inclusive(tag)
      max == max_inclusive(tag)
  IN IF val < min \/ val >= max THEN VErr(RangeError(min, max, val)) ELSE VOk(val)

\* impl ValueVerifier<T> for X: Ranged<T>
Ranged_verify(tag, val) ==
  LET min == min_inclusive(tag)
      max == max_inclusive(tag)
  IN IF val < min \/ val > max THEN VErr(RangeError(min, max, val)) ELSE VOk(val)

\* impl_verify_simple!: verify(val) = Ok(val)
Simple_verify(tag, val) == VOk(val)

verify(tag, val) ==
  IF tag \in RangedNames THEN Ranged_verify(tag, val) ELSE Simple_verify(tag, val)

\* Wrapped::from_value; the wrapper is modelled by the value it derefs to.
from_value(tag, val) ==
  LET v == verify(tag, val) IN IF v.ok THEN VOk(v.val) ELSE v

\* from_value applied and its Result handed on whatever the guard is.
Wrapped_from_checked(tag, val) ==
  IF Returned(val) THEN val ELSE Question(val, from_value(tag, val.val))

\* let ret = R::guard(|_| Self::from_value(val)); R::Guard::transpose_result(ret)
Wrapped_from(tag, val) ==
  IF Returned(val) THEN val
  ELSE Question(val, transpose_result(val, guard(val, from_value(tag, val.val))))

\* impl Decode for Wrapped<u8, X> / Wrapped<u16, X> / Wrapped<i16, X>
Wrapped_u8_decode(r, tag) == Wrapped_from(tag, read_u8(r))

Wrapped_u16_decode(r, tag) == Wrapped_from(tag, read_u16be(r))

Wrapped_i16_decode(r, tag) == Wrapped_from(tag, read_i16be(r))

Wrapped_decode(r, tag) ==
  CASE TagOf(tag).base = "u8" -> Wrapped_u8_decode(r, tag)
    [] TagOf(tag).base = "u16" -> Wrapped_u16_decode(r, tag)
    [] TagOf(tag).base = "i16" -> Wrapped_i16_decode(r, tag)

(***************************************************************************)
(* Selector enums and bit flags of the settings modules.                   *)
(***************************************************************************)
\* The match without the arm of the last variant.
Enum_decode_short(x, name, variants) ==
  IF Returned(x) THEN x
  ELSE IF x.val < Len(variants) - 1
  THEN Ok(x, guard(x, variants[x.val + 1]))
  ELSE Err(x, InvalidValue(name, x.val))

\* match reader.read_u8()? { code => Ok(variant), x => Err(InvalidValue(name, x)) }
\* for an enum whose variants carry the codes 0, 1, 2, ...
Enum_decode(x, name, variants) ==
  IF Returned(x) THEN x
  ELSE IF x.val < Len(variants)
  THEN Ok(x, guard(x, variants[x.val + 1]))
  ELSE Err(x, InvalidValue(name, x.val))

\* flags & flag != T::default()
flag_set(flags, flag) == BitAnd(flags, flag) # 0

\* from_bits_retain: the bits as read, undefined ones included.
from_bits_retain(bits, all) == bits

from_bits_truncate(bits, all) == BitAnd(bits, all)

Flags_u8_decode(r, all) ==
  LET bits == read_u8(r)
  IN Finish(bits, guard(bits, from_bits_truncate(bits.val, all)))

TemperatureUnit_decode(r) == Enum_decode(read_u8(r), "TemperatureUnit", <<"C", "F">>)
FlowUnit_decode(r) == Enum_decode(read_u8(r), "FlowUnit", <<"Liter", "Gallons">>)

DisplayBrightness_decode(r) ==
  Enum_decode(read_u8(r), "DisplayBrightness", <<"Maximum", "Medium", "Low">>)

Option_DisplayBrightness_match(x) ==
  CASE Returned(x) -> x
    [] x.val = 0 -> Ok(x, guard(x, Some("Maximum")))
    [] x.val = 1 -> Ok(x, guard(x, Some("Medium")))
    [] x.val = 2 -> Ok(x, guard(x, Some("Low")))
    [] x.val = 3 -> Ok(x, guard(x, None))
    [] OTHER -> Err(x, InvalidValue("Option<DisplayBrightness>", x.val))

Option_DisplayBrightness_decode(r) == Option_DisplayBrightness_match(read_u8(r))

ChartSource_decode(r) ==
  Enum_decode(read_u8(r), "ChartSource",
    <<"Flow", "WaterTemp", "ExternalTemp", "Conductivity", "WaterQuality",
      "PowerConsumption", "SystemVoltage">>)

Medium_decode(r) == Enum_decode(read_u8(r), "Medium", <<"DpUltra", "DistilledWater">>)

ConnectorType_decode(r) ==
  Enum_decode(read_u8(r), "ConnectorType", <<"InnerDiameterGt7mm", "InnerDiameterLt7mm">>)

OutputSignal_decode(r) ==
  Enum_decode(read_u8(r), "OutputSignal",
    <<"ConstantSpeed", "HighFlowSensor", "FanFromFlow", "PulseOnAlarm",
      "PermanentOn", "PermanentOff">>)

SoundEffect_decode(r) ==
  Enum_decode(read_u16be(r), "SoundEffect",
    <<"OutwardsFromCenter", "InwardsToCenterA", "InwardsToCenterB", "FromLeft",
      "FromRight", "AllLEDs">>)

\* the bits the bitflags! declarations define
StandbyFlags_all == 247
PowerFlags_all == 1
AlarmFlags_all == 224
DisplayFlags_all == 61
PageFlags_all == 65535

StandbyFlags_decode(r) == Flags_u8_decode(r, StandbyFlags_all)
PowerFlags_decode(r) == Flags_u8_decode(r, PowerFlags_all)
AlarmFlags_decode(r) == Flags_u8_decode(r, AlarmFlags_all)
DisplayFlags_decode(r) == Flags_u8_decode(r, DisplayFlags_all)

PageFlags_decode(r) ==
  LET bits == read_u16be(r)
  IN Finish(bits, guard(bits, from_bits_truncate(bits.val, PageFlags_all)))

(***************************************************************************)
(* Display settings (protocol/settings/display.rs).                        *)
(***************************************************************************)
\* The closure without its map_err: the error of from_value handed on.
NextPageInterval_checked_ranged(val) ==
  IF val <= max_inclusive("NextPageInterval")
  THEN LET w == from_value("NextPageInterval", val)
       IN IF w.ok THEN VOk(Some(w.val)) ELSE w
  ELSE VOk(None)

\* the closure handed to R::guard in Option<NextPageInterval>::decode
NextPageInterval_checked(val) ==
  IF val <= max_inclusive("NextPageInterval")
  THEN LET w == from_value("NextPageInterval", val)
       IN IF w.ok THEN VOk(Some(w.val))
          ELSE VErr(InvalidValue("NextPageInterval", val))
  ELSE VOk(None)

Option_NextPageInterval_guard(x) ==
  IF Returned(x) THEN x
  ELSE Question(x, transpose_result(x, guard(x, NextPageInterval_checked(x.val))))

Option_NextPageInterval_decode(r) == Option_NextPageInterval_guard(read_u8(r))

Chart_decode(r) ==
  LET s1 == skip(r, 1)
      source == decode(s1, "ChartSource")
      interval == decode(source, "ChartInterval")
  IN Return(<<s1, source, interval>>, guard(interval,
       [source |-> source.val, interval |-> interval.val]))

DisplaySettings_decode(r) ==
  LET temperature_unit == decode(r, "TemperatureUnit")
      flow_unit == decode(temperature_unit, "FlowUnit")
      s1 == skip(flow_unit, 1)
      next_page_interval == decode(s1, "Option<NextPageInterval>")
      s2 == skip(next_page_interval, 2)
      page_flags == decode(s2, "PageFlags")
      s3 == skip(page_flags, 4)
      display_brightness == decode(s3, "DisplayBrightness")
      idle_display_brightness == decode(display_brightness, "Option<DisplayBrightness>")
      s4 == skip(idle_display_brightness, 4)
      display_flags == decode(s4, "DisplayFlags")
      charts == decode(display_flags, "[Chart; 4]")
  IN Return(<<temperature_unit, flow_unit, s1, next_page_interval, s2, page_flags,
                    s3, display_brightness, idle_display_brightness, s4, display_flags,
                    charts>>, guard(charts,
       [temperature_unit |-> temperature_unit.val,
        flow_unit |-> flow_unit.val,
        display_flags |-> display_flags.val,
        next_page_interval |-> next_page_interval.val,
        page_flags |-> page_flags.val,
        display_brightness |-> display_brightness.val,
        idle_display_brightness |-> idle_display_brightness.val,
        charts |-> charts.val]))

(***************************************************************************)
(* System settings (protocol/settings/system.rs).                          *)
(***************************************************************************)
\* the closure handed to R::guard in Option<CurrentDraw>::decode
CurrentDraw_checked(flags, val) ==
  IF BitAnd(flags, 1) # 0
  THEN LET w == from_value("CurrentDraw", val)
       IN IF w.ok THEN VOk(Some(w.val)) ELSE VErr(Error_from(w.err))
  ELSE VOk(None)

Option_CurrentDraw_guard(flags, x) ==
  IF Returned(x) THEN x
  ELSE Question(x, transpose_result(x, guard(x, CurrentDraw_checked(flags.val, x.val))))

Option_CurrentDraw_decode(r) ==
  LET s1 == skip(r, 1)
      flags == read_u8(s1)
      val == read_u16be(flags)
  IN AndThen(<<s1, flags, val>>, Option_CurrentDraw_guard(flags, val))

(***************************************************************************)
(* Alarm settings (protocol/settings/alarm.rs).                            *)
(***************************************************************************)
AlarmSettings_decode(r) ==
  LET flags == decode(r, "AlarmFlags")
      alarms == read_u8(flags)
      s1 == skip(alarms, 1)
      startup_delay == decode(s1, "StartupDelay")
      flow_alarm_limit == 
        decode_opt(startup_delay, "Flow", flag_set(alarms.val, 1))
      water_temperature_limit == 
        decode_opt(flow_alarm_limit, "Temperature", flag_set(alarms.val, 2))
      external_temperature_limit == 
        decode_opt(water_temperature_limit, "Temperature", flag_set(alarms.val, 4))
      water_quality_limit == 
        decode_opt(external_temperature_limit, "WaterQuality", flag_set(alarms.val, 8))
      output_signal == decode(water_quality_limit, "OutputSignal")
  IN Return(<<flags, alarms, s1, startup_delay, flow_alarm_limit,
                    water_temperature_limit, external_temperature_limit,
                    water_quality_limit, output_signal>>, guard(output_signal,
       [flags |-> flags.val,
        startup_delay |-> startup_delay.val,
        flow_alarm_limit |-> flow_alarm_limit.val,
        water_temperature_limit |-> water_temperature_limit.val,
        external_temperature_limit |-> external_temperature_limit.val,
        water_quality_limit |-> water_quality_limit.val,
        output_signal |-> output_signal.val]))

(***************************************************************************)
(* Lighting settings (protocol/settings/lighting.rs).                      *)
(***************************************************************************)
\* SourceControl with one byte for each of its four fields.
SourceControl_decode_narrow(r) ==
  LET input_min == read_u8(r)
      input_max == read_u8(input_min)
      output_min == read_u8(input_max)
      output_max == read_u8(output_min)
  IN Return(<<input_min, input_max, output_min, output_max>>, guard(output_max,
       [input_min |-> input_min.val, input_max |-> input_max.val,
        output_min |-> output_min.val, output_max |-> output_max.val]))

SourceControl_decode(r) ==
  LET input_min == read_u16be(r)
      input_max == read_u16be(input_min)
      output_min == read_u8(input_max)
      output_max == read_u8(output_min)
  IN Return(<<input_min, input_max, output_min, output_max>>, guard(output_max,
       [input_min |-> input_min.val, input_max |-> input_max.val,
        output_min |-> output_min.val, output_max |-> output_max.val]))

\* Color::from_hsv(60 h_section + 60 h_offset / 255, s / 255, v / 255); the
\* three channels are kept as exact numerators over 255.
Color_decode(r) ==
  LET h_section == read_u8(r)
      h_offset == read_u8(h_section)
      s == read_u8(h_offset)
      v == read_u8(s)
  IN Return(<<h_section, h_offset, s, v>>, guard(v,
       [h |-> 60 * 255 * h_section.val + 60 * h_offset.val, s |-> s.val, v |-> v.val]))

DataSources ==
  <<"Flow", "WaterTemperature", "ExternalTemperature", "Conductivity",
    "WaterQuality", "Power", "SoftwareSensor1", "SoftwareSensor2",
    "SoftwareSensor3", "SoftwareSensor4", "SoftwareSensor5", "SoftwareSensor6",
    "SoftwareSensor7", "SoftwareSensor8">>

Option_DataSource_match(x) ==
  CASE Returned(x) -> x
    [] x.val <= 13 -> Ok(x, guard(x, Some(DataSources[x.val + 1])))
    [] x.val = 28 -> Ok(x, guard(x, Some("Sound")))
    [] x.val = 65535 -> Ok(x, guard(x, None))
    [] OTHER -> Err(x, InvalidValue("DataSource", x.val))

Option_DataSource_decode(r) == Option_DataSource_match(read_u16be(r))

Min(a, b) == IF a < b THEN a ELSE b

\* take(n) letting one more item through
Take_one_more(seq, n) == SubSeq(seq, 1, Min(n + 1, Len(seq)))

\* iter.take(n).collect()
Take(seq, n) == SubSeq(seq, 1, Min(n, Len(seq)))
\* the rest of an iterator after one next()
Rest_kept(seq) == seq

Rest(seq) == SubSeq(seq, 2, Len(seq))

\* 0x01
Effect_Static(r, flags, sc0, sc1) ==
  LET source_control_brightness == decode_opt(r, "SourceControl", sc0)
      source_control_saturation == decode_opt(source_control_brightness, "SourceControl", sc1)
      s1 == skip(source_control_saturation, 24)
      color == decode(s1, "Color")
      s2 == skip_bytes(color, "[Color; 5]")
  IN Return(<<source_control_brightness, source_control_saturation, s1, color, s2>>, guard(s2,
       [case |-> "Static", color |-> color.val,
        source_control_brightness |-> source_control_brightness.val,
        source_control_saturation |-> source_control_saturation.val]))

\* 0x02
Effect_Breathing(r, flags, sc0, sc1) ==
  LET source_control_speed == decode_opt(r, "SourceControl", sc0)
      source_control_intensity == decode_opt(source_control_speed, "SourceControl", sc1)
      speed == decode(source_control_intensity, "EffectPercent")
      intensity == decode(speed, "EffectPercent")
      delay_max_brightness == decode(intensity, "EffectDelay")
      delay_min_brightness == decode(delay_max_brightness, "EffectDelay")
      s1 == skip(delay_min_brightness, 16)
      color == decode(s1, "Color")
      s2 == skip_bytes(color, "[Color; 5]")
  IN Return(<<source_control_speed, source_control_intensity, speed, intensity,
                    delay_max_brightness, delay_min_brightness, s1, color, s2>>, guard(s2,
       [case |-> "Breathing", color |-> color.val, speed |-> speed.val,
        intensity |-> intensity.val,
        delay_max_brightness |-> delay_max_brightness.val,
        delay_min_brightness |-> delay_min_brightness.val,
        source_control_speed |-> source_control_speed.val,
        source_control_intensity |-> source_control_intensity.val]))

\* 0x03
Effect_Rainbow(r, flags, sc0, sc1) ==
  LET source_control_speed == decode_opt(r, "SourceControl", sc0)
      source_control_brightness == decode_opt(source_control_speed, "SourceControl", sc1)
      speed == decode(source_control_brightness, "EffectPercent")
      color_range == decode(speed, "EffectPercent")
      s1 == skip(color_range, 20)
      color == decode(s1, "Color")
      s2 == skip_bytes(color, "[Color; 5]")
  IN Return(<<source_control_speed, source_control_brightness, speed, color_range,
                    s1, color, s2>>, guard(s2,
       [case |-> "Rainbow", color |-> color.val, speed |-> speed.val,
        color_range |-> color_range.val,
        reverse_direction |-> flag_set(flags, 2),
        source_control_speed |-> source_control_speed.val,
        source_control_brightness |-> source_control_brightness.val]))

\* 0x04
Effect_Blink(r, flags, sc0, sc1) ==
  LET source_control_speed == decode_opt(r, "SourceControl", sc0)
      source_control_brightness == decode_opt(source_control_speed, "SourceControl", sc1)
      speed == decode(source_control_brightness, "EffectPercent")
      color_count == read_u16be(speed)
      s1 == skip(color_count, 20)
      colors == decode(s1, "[Color; 6]")
  IN Unwind(Return(<<source_control_speed, source_control_brightness, speed, color_count,
                    s1, colors>>, guard(colors,
       [case |-> "Blink", background |-> colors.val[1],
        colors |-> Take(Rest(colors.val), color_count.val),
        speed |-> speed.val,
        fade_in |-> flag_set(flags, 2), fade_out |-> flag_set(flags, 4),
        random_color |-> flag_set(flags, 8), slide_colors |-> flag_set(flags, 16),
        source_control_speed |-> source_control_speed.val,
        source_control_brightness |-> source_control_brightness.val])),
       colors.val = <<>> \/ Len(Take(Rest(colors.val), color_count.val)) > 5)

\* 0x05
Effect_ColorChange(r, flags, sc0, sc1) ==
  LET source_control_speed == decode_opt(r, "SourceControl", sc0)
      source_control_brightness == decode_opt(source_control_speed, "SourceControl", sc1)
      speed == decode(source_control_brightness, "EffectPercent")
      color_count == read_u16be(speed)
      s1 == skip(color_count, 20)
      colors == decode(s1, "[Color; 6]")
  IN Unwind(Return(<<source_control_speed, source_control_brightness, speed, color_count,
                    s1, colors>>, guard(colors,
       [case |-> "ColorChange",
        colors |-> Take(colors.val, color_count.val),
        speed |-> speed.val,
        fade |-> flag_set(flags, 4),
        random_color |-> flag_set(flags, 8), slide_colors |-> flag_set(flags, 16),
        source_control_speed |-> source_control_speed.val,
        source_control_brightness |-> source_control_brightness.val])),
       Len(Take(colors.val, color_count.val)) > 6)

\* 0x07
Effect_Sequence(r, flags, sc0, sc1) ==
  LET source_control_speed == decode_opt(r, "SourceControl", sc0)
      source_control_brightness == decode_opt(source_control_speed, "SourceControl", sc1)
      speed == decode(source_control_brightness, "EffectPercent")
      smoothness == decode(speed, "EffectPercent")
      color_count == read_u16be(smoothness)
      delay_after_sequence == decode(color_count, "EffectDelay")
      delay_before_sequence == decode(delay_after_sequence, "EffectDelay")
      s1 == skip(delay_before_sequence, 14)
      colors == decode(s1, "[Color; 6]")
  IN Unwind(Return(<<source_control_speed, source_control_brightness, speed, smoothness,
                    color_count, delay_after_sequence, delay_before_sequence, s1, colors>>, guard(colors,
       [case |-> "Sequence", background |-> colors.val[1],
        colors |-> Take(Rest(colors.val), color_count.val),
        speed |-> speed.val, smoothness |-> smoothness.val,
        delay_after_sequence |-> delay_after_sequence.val,
        delay_before_sequence |-> delay_before_sequence.val,
        reverse_direction |-> flag_set(flags, 2), fade |-> flag_set(flags, 4),
        random_color |-> flag_set(flags, 8),
        source_control_speed |-> source_control_speed.val,
        source_control_brightness |-> source_control_brightness.val])),
       colors.val = <<>> \/ Len(Take(Rest(colors.val), color_count.val)) > 5)

\* The arm of 0x08 | 0x09 with `circular` read for the Scanner only.
Effect_Scanner_split(r, effect, flags, sc0, sc1) ==
  LET source_control_speed == decode_opt(r, "SourceControl", sc0)
      source_control_brightness == decode_opt(source_control_speed, "SourceControl", sc1)
      speed == decode(source_control_brightness, "EffectPercent")
      smoothness == decode(speed, "EffectPercent")
      width == decode(smoothness, "EffectWidth")
      s1 == skip(width, 18)
      background == decode(s1, "Color")
      outer_color == decode(background, "Color")
      inner_color == decode(outer_color, "Color")
      s2 == skip_bytes(inner_color, "[Color; 3]")
  IN Return(<<source_control_speed, source_control_brightness, speed, smoothness,
                    width, s1, background, outer_color, inner_color, s2>>, guard(s2,
       [case |-> IF effect = 8 THEN "Scanner" ELSE "Laser",
        background |-> background.val, inner_color |-> inner_color.val,
        outer_color |-> outer_color.val,
        speed |-> speed.val, smoothness |-> smoothness.val, width |-> width.val,
        reverse_direction |-> flag_set(flags, 2), fade |-> flag_set(flags, 4),
        random_color |-> flag_set(flags, 8), second_color_mode |-> flag_set(flags, 32),
        color_change |-> flag_set(flags, 64), circular |-> effect = 8 /\ flag_set(flags, 128),
        source_control_speed |-> source_control_speed.val,
        source_control_brightness |-> source_control_brightness.val]))

\* 0x08 | 0x09
Effect_Scanner(r, effect, flags, sc0, sc1) ==
  LET source_control_speed == decode_opt(r, "SourceControl", sc0)
      source_control_brightness == decode_opt(source_control_speed, "SourceControl", sc1)
      speed == decode(source_control_brightness, "EffectPercent")
      smoothness == decode(speed, "EffectPercent")
      width == decode(smoothness, "EffectWidth")
      s1 == skip(width, 18)
      background == decode(s1, "Color")
      outer_color == decode(background, "Color")
      inner_color == decode(outer_color, "Color")
      s2 == skip_bytes(inner_color, "[Color; 3]")
  IN Return(<<source_control_speed, source_control_brightness, speed, smoothness,
                    width, s1, background, outer_color, inner_color, s2>>, guard(s2,
       [case |-> IF effect = 8 THEN "Scanner" ELSE "Laser",
        background |-> background.val, inner_color |-> inner_color.val,
        outer_color |-> outer_color.val,
        speed |-> speed.val, smoothness |-> smoothness.val, width |-> width.val,
        reverse_direction |-> flag_set(flags, 2), fade |-> flag_set(flags, 4),
        random_color |-> flag_set(flags, 8), second_color_mode |-> flag_set(flags, 32),
        color_change |-> flag_set(flags, 64), circular |-> flag_set(flags, 128),
        source_control_speed |-> source_control_speed.val,
        source_control_brightness |-> source_control_brightness.val]))

\* 0x0A
Effect_Wave(r, flags, sc0, sc1) ==
  LET source_control_speed == decode_opt(r, "SourceControl", sc0)
      source_control_brightness == decode_opt(source_control_speed, "SourceControl", sc1)
      speed == decode(source_control_brightness, "EffectPercent")
      smoothness == decode(speed, "EffectPercent")
      width == decode(smoothness, "EffectWidth")
      color_count == read_u16be(width)
      s1 == skip(color_count, 16)
      colors == decode(s1, "[Color; 6]")
  IN Unwind(Return(<<source_control_speed, source_control_brightness, speed, smoothness,
                    width, color_count, s1, colors>>, guard(colors,
       [case |-> "Wave", background |-> colors.val[1],
        colors |-> Take(Rest(colors.val), color_count.val),
        speed |-> speed.val, smoothness |-> smoothness.val, width |-> width.val,
        reverse_direction |-> flag_set(flags, 2), random_color |-> flag_set(flags, 4),
        circular |-> flag_set(flags, 128),
        source_control_speed |-> source_control_speed.val,
        source_control_brightness |-> source_control_brightness.val])),
       colors.val = <<>> \/ Len(Take(Rest(colors.val), color_count.val)) > 5)

\* 0x0B
Effect_ColorSequence(r, flags, sc0, sc1) ==
  LET source_control_speed == decode_opt(r, "SourceControl", sc0)
      source_control_brightness == decode_opt(source_control_speed, "SourceControl", sc1)
      speed == decode(source_control_brightness, "EffectPercent")
      smoothness == decode(speed, "EffectPercent")
      s1 == skip(smoothness, 2)
      color_count == read_u16be(s1)
      color_change_speed == decode(color_count, "EffectWidth")
      s2 == skip(color_change_speed, 14)
      colors == decode(s2, "[Color; 6]")
  IN Unwind(Return(<<source_control_speed, source_control_brightness, speed, smoothness,
                    s1, color_count, color_change_speed, s2, colors>>, guard(colors,
       [case |-> "ColorSequence",
        colors |-> Take(colors.val, color_count.val),
        speed |-> speed.val, smoothness |-> smoothness.val,
        color_change_speed |-> color_change_speed.val,
        reverse_direction |-> flag_set(flags, 2), random_color |-> flag_set(flags, 8),
        source_control_speed |-> source_control_speed.val,
        source_control_brightness |-> source_control_brightness.val])),
       Len(Take(colors.val, color_count.val)) > 6)

\* 0x0C
Effect_ColorShift(r, flags, sc0, sc1) ==
  LET source_control_speed == decode_opt(r, "SourceControl", sc0)
      source_control_brightness == decode_opt(source_control_speed, "SourceControl", sc1)
      speed == decode(source_control_brightness, "EffectPercent")
      color_range == decode(speed, "EffectPercent")
      total_area == decode(color_range, "EffectWidth")
      s1 == skip(total_area, 18)
      color == decode(s1, "Color")
      s2 == skip_bytes(color, "[Color; 5]")
  IN Return(<<source_control_speed, source_control_brightness, speed, color_range,
                    total_area, s1, color, s2>>, guard(s2,
       [case |-> "ColorShift", color |-> color.val, speed |-> speed.val,
        color_range |-> color_range.val, total_area |-> total_area.val,
        reverse_direction |-> flag_set(flags, 2),
        source_control_speed |-> source_control_speed.val,
        source_control_brightness |-> source_control_brightness.val]))

\* colors.zip(values).enumerate().map(|(index, (color, value))|
\*   (color, value, flag_set(flags, 1 << (index + first)))), index from 0
ZipBlink_shifted(colors, values, flags, first) ==
  [i \in 1..Min(Len(colors), Len(values)) |->
     <<colors[i], values[i], flag_set(flags, Shl1(i + first))>>]

ZipBlink(colors, values, flags, first) ==
  [i \in 1..Min(Len(colors), Len(values)) |->
     <<colors[i], values[i], flag_set(flags, Shl1((i - 1) + first))>>]

\* 0x0D | 0x15
Effect_BarGraph(r, effect, flags, sc0, sc1) ==
  LET source_control_rotation == decode_opt(r, "SourceControl", sc0)
      s1 == skip_bytes(source_control_rotation, "SourceControl")
      start_value == read_u16be(s1)
      end_value == read_u16be(start_value)
      rotation == decode(end_value, "EffectPercent")
      color_count == read_u16be(rotation)
      color_values == decode(color_count, "[u16; 3]")
      peak_hold_time == decode(color_values, "EffectPercent")
      s2 == skip(peak_hold_time, 8)
      background == decode(s2, "Color")
      peak_color == decode(background, "Color")
      colors == decode(peak_color, "[Color; 4]")
  IN Unwind(Return(<<source_control_rotation, s1, start_value, end_value, rotation,
                    color_count, color_values, peak_hold_time, s2, background,
                    peak_color, colors>>, guard(colors,
       [case |-> IF effect = 13 THEN "BarGraph" ELSE "SoundBars",
        background |-> background.val, peak_color |-> peak_color.val,
        colors |-> Take(ZipBlink(colors.val, <<start_value.val>> \o color_values.val,
                                 flags, 7),
                        color_count.val + 1),
        end_value |-> end_value.val, rotation |-> rotation.val,
        peak_hold_time |-> peak_hold_time.val,
        reverse_direction |-> flag_set(flags, 8), show_peak |-> flag_set(flags, 32),
        show_bar |-> flag_set(flags, 2), show_ranges |-> flag_set(flags, 4),
        fade_ranges |-> flag_set(flags, 1),
        source_control_rotation |-> source_control_rotation.val])),
       \/ Len(Take(ZipBlink(colors.val, <<start_value.val>> \o color_values.val, flags, 7),
                   color_count.val + 1)) > 4
       \/ \E i \in 1..Len(colors.val) : ShiftOverflows((i - 1) + 7))

\* 0x0E
Effect_Flame(r, flags, sc0, sc1) ==
  LET source_control_intensity == decode_opt(r, "SourceControl", sc0)
      s1 == skip_bytes(source_control_intensity, "SourceControl")
      intensity == decode(s1, "EffectWidth")
      s2 == skip(intensity, 22)
      background == decode(s2, "Color")
      color_primary == decode(background, "Color")
      color_secondary == decode(color_primary, "Color")
      s3 == skip_bytes(color_secondary, "[Color; 3]")
  IN Return(<<source_control_intensity, s1, intensity, s2, background,
                    color_primary, color_secondary, s3>>, guard(s3,
       [case |-> "Flame", background |-> background.val,
        color_primary |-> color_primary.val, color_secondary |-> color_secondary.val,
        intensity |-> intensity.val,
        source_control_intensity |-> source_control_intensity.val]))

\* 0x0F..=0x11
Effect_Rain(r, effect, flags, sc0, sc1) ==
  LET source_control_speed == decode_opt(r, "SourceControl", sc0)
      source_control_brightness == decode_opt(source_control_speed, "SourceControl", sc1)
      speed == decode(source_control_brightness, "EffectWidth")
      items == decode(speed, "RainItems")
      size == decode(items, "EffectWidth")
      smoothness == decode(size, "EffectWidth")
      s1 == skip(smoothness, 16)
      background == decode(s1, "Color")
      color == decode(background, "Color")
      s2 == skip_bytes(color, "[Color; 4]")
  IN Return(<<source_control_speed, source_control_brightness, speed, items, size,
                    smoothness, s1, background, color, s2>>, guard(s2,
       [case |-> CASE effect = 15 -> "Rain" [] effect = 16 -> "Snow"
                   [] effect = 17 -> "Stardust",
        background |-> background.val, color |-> color.val,
        speed |-> speed.val, items |-> items.val, size |-> size.val,
        smoothness |-> smoothness.val,
        random_color |-> flag_set(flags, 8), reverse_direction |-> flag_set(flags, 2),
        source_control_speed |-> source_control_speed.val,
        source_control_brightness |-> source_control_brightness.val]))

\* The arm of selector 0x12 gating its source-control block by sc0.
Effect_ColorSwitch_sc0(r, flags, sc0, sc1) ==
  LET source_control_brightness == decode_opt(r, "SourceControl", sc0)
      s1 == skip_bytes(source_control_brightness, "SourceControl")
      color_count == read_u16be(s1)
      values == decode(color_count, "[u16; 6]")
      end_value == read_u16be(values)
      s2 == skip(end_value, 8)
      colors == decode(s2, "[Color; 6]")
  IN Return(<<source_control_brightness, s1, color_count, values, end_value, s2,
                    colors>>, guard(colors,
       [case |-> "ColorSwitch",
        colors |-> Take(ZipBlink(colors.val, values.val, flags, 1),
                        color_count.val + 1),
        end_value |-> end_value.val,
        fade_ranges |-> flag_set(flags, 1),
        source_control_brightness |-> source_control_brightness.val]))

\* 0x12
Effect_ColorSwitch(r, flags, sc0, sc1) ==
  LET source_control_brightness == decode_opt(r, "SourceControl", sc1)
      s1 == skip_bytes(source_control_brightness, "SourceControl")
      color_count == read_u16be(s1)
      values == decode(color_count, "[u16; 6]")
      end_value == read_u16be(values)
      s2 == skip(end_value, 8)
      colors == decode(s2, "[Color; 6]")
  IN Unwind(Return(<<source_control_brightness, s1, color_count, values, end_value, s2,
                    colors>>, guard(colors,
       [case |-> "ColorSwitch",
        colors |-> Take(ZipBlink(colors.val, values.val, flags, 1),
                        color_count.val + 1),
        end_value |-> end_value.val,
        fade_ranges |-> flag_set(flags, 1),
        source_control_brightness |-> source_control_brightness.val])),
       \/ Len(Take(ZipBlink(colors.val, values.val, flags, 1), color_count.val + 1)) > 6
       \/ \E i \in 1..Len(colors.val) : ShiftOverflows((i - 1) + 1))

\* 0x13
Effect_SwipingRainbow(r, flags, sc0, sc1) ==
  LET source_control_speed == decode_opt(r, "SourceControl", sc0)
      source_control_brightness == decode_opt(source_control_speed, "SourceControl", sc1)
      point_speed == decode(source_control_brightness, "EffectWidth")
      point_smoothness == decode(point_speed, "EffectWidth")
      point_size == decode(point_smoothness, "EffectWidth")
      color_change_speed == decode(point_size, "EffectWidth")
      color_range == decode(color_change_speed, "EffectWidth")
      s1 == skip(color_range, 14)
      point_color == decode(s1, "Color")
      strip_color == decode(point_color, "Color")
      s2 == skip_bytes(strip_color, "[Color; 4]")
  IN Return(<<source_control_speed, source_control_brightness, point_speed,
                    point_smoothness, point_size, color_change_speed, color_range, s1,
                    point_color, strip_color, s2>>, guard(s2,
       [case |-> "SwipingRainbow",
        point_color |-> point_color.val, strip_color |-> strip_color.val,
        point_speed |-> point_speed.val, point_smoothness |-> point_smoothness.val,
        point_size |-> point_size.val, color_change_speed |-> color_change_speed.val,
        color_range |-> color_range.val,
        reverse_direction |-> flag_set(flags, 1),
        source_control_speed |-> source_control_speed.val,
        source_control_brightness |-> source_control_brightness.val]))

\* 0x14
Effect_SoundFlash(r, flags, sc0, sc1) ==
  LET s1 == skip_bytes(r, "SourceControl")
      s2 == skip_bytes(s1, "SourceControl")
      s3 == skip(s2, 24)
      background == decode(s3, "Color")
      colors == decode(background, "[Color; 4]")
      s4 == skip_bytes(colors, "Color")
  IN Return(<<s1, s2, s3, background, colors, s4>>, guard(s4,
       [case |-> "SoundFlash", background |-> background.val, colors |-> colors.val]))

\* 0x16
Effect_SoundSlider(r, flags, sc0, sc1) ==
  LET s1 == skip_bytes(r, "SourceControl")
      s2 == skip_bytes(s1, "SourceControl")
      effects == decode(s2, "[SoundEffect; 4]")
      speeds == 
        decode(effects, "[SoundEffectSpeed; 4]")
      rotate_color == decode(speeds, "EffectPercent")
      s3 == skip(rotate_color, 6)
      background == decode(s3, "Color")
      colors == decode(background, "[Color; 4]")
      s4 == skip_bytes(colors, "Color")
  IN Unwind(Return(<<s1, s2, effects, speeds, rotate_color, s3, background, colors, s4>>, guard(s4,
       [case |-> "SoundSlider", background |-> background.val,
        effects |-> [i \in 1..4 |-> <<colors.val[i], effects.val[i], speeds.val[i]>>],
        rotate_color |-> rotate_color.val])),
       Min(Min(Len(effects.val), Len(speeds.val)), Len(colors.val)) < 4)

\* 0x17
Effect_SoundShift(r, flags, sc0, sc1) ==
  LET s1 == skip_bytes(r, "SourceControl")
      s2 == skip_bytes(s1, "SourceControl")
      rotate_color == decode(s2, "EffectPercent")
      effects == 
        decode(rotate_color, "[SoundEffectSpeed; 2]")
      idle_speed == decode(effects, "EffectPercent")
      activity_speed == decode(idle_speed, "EffectPercent")
      s3 == skip(activity_speed, 14)
      background == decode(s3, "Color")
      colors == decode(background, "[Color; 2]")
      s4 == skip_bytes(colors, "[Color; 3]")
  IN Unwind(Return(<<s1, s2, rotate_color, effects, idle_speed, activity_speed, s3,
                    background, colors, s4>>, guard(s4,
       [case |-> "SoundShift", background |-> background.val,
        effects |-> [i \in 1..2 |->
                       <<colors.val[i], effects.val[i], flag_set(flags, Shl1((i - 1) + 1))>>],
        rotate_color |-> rotate_color.val, idle_speed |-> idle_speed.val,
        activity_speed |-> activity_speed.val,
        reverse_direction |-> flag_set(flags, 1)])),
       \/ Min(Len(effects.val), Len(colors.val)) < 2
       \/ \E i \in 1..2 : ShiftOverflows((i - 1) + 1))

\* 0x18
Effect_Ambient(r, flags, sc0, sc1) ==
  LET s1 == skip_bytes(r, "SourceControl")
      s2 == skip_bytes(s1, "SourceControl")
      s3 == skip(s2, 24)
      background == decode(s3, "Color")
      s4 == skip_bytes(background, "[Color; 5]")
  IN Return(<<s1, s2, s3, background, s4>>, guard(s4, [case |-> "Ambient", background |-> background.val]))

\* 0x21
Effect_ColorGradient(r, flags, sc0, sc1) ==
  LET source_control_rotation == decode_opt(r, "SourceControl", sc0)
      s1 == skip_bytes(source_control_rotation, "SourceControl")
      s2 == skip(s1, 4)
      rotation == decode(s2, "EffectPercent")
      color_count == read_u16be(rotation)
      values == decode(color_count, "[u16; 3]")
      s3 == skip(values, 10)
      s4 == skip_bytes(s3, "[Color; 2]")
      start_color == decode(s4, "Color")
      colors == decode(start_color, "[Color; 3]")
  IN Unwind(Return(<<source_control_rotation, s1, s2, rotation, color_count, values, s3,
                    s4, start_color, colors>>, guard(colors,
       [case |-> "ColorGradient", start_color |-> start_color.val,
        colors |-> Take([i \in 1..3 |-> <<colors.val[i], values.val[i]>>],
                        color_count.val),
        rotation |-> rotation.val,
        reverse_direction |-> flag_set(flags, 8), reverse_rotation |-> flag_set(flags, 16),
        source_control_rotation |-> source_control_rotation.val])),
       Len(Take([i \in 1..3 |-> <<colors.val[i], values.val[i]>>], color_count.val)) > 3)

\* The match with the arm of Sequence written as the range 0x06..=0x07.
Effect_dispatch_wide_arm(r, effect, flags, sc0, sc1) ==
  CASE effect = 1 -> Effect_Static(r, flags, sc0, sc1)
    [] effect = 2 -> Effect_Breathing(r, flags, sc0, sc1)
    [] effect = 3 -> Effect_Rainbow(r, flags, sc0, sc1)
    [] effect = 4 -> Effect_Blink(r, flags, sc0, sc1)
    [] effect = 5 -> Effect_ColorChange(r, flags, sc0, sc1)
    [] effect \in 6..7 -> Effect_Sequence(r, flags, sc0, sc1)
    [] effect \in {8, 9} -> Effect_Scanner(r, effect, flags, sc0, sc1)
    [] effect = 10 -> Effect_Wave(r, flags, sc0, sc1)
    [] effect = 11 -> Effect_ColorSequence(r, flags, sc0, sc1)
    [] effect = 12 -> Effect_ColorShift(r, flags, sc0, sc1)
    [] effect \in {13, 21} -> Effect_BarGraph(r, effect, flags, sc0, sc1)
    [] effect = 14 -> Effect_Flame(r, flags, sc0, sc1)
    [] effect \in 15..17 -> Effect_Rain(r, effect, flags, sc0, sc1)
    [] effect = 18 -> Effect_ColorSwitch(r, flags, sc0, sc1)
    [] effect = 19 -> Effect_SwipingRainbow(r, flags, sc0, sc1)
    [] effect = 20 -> Effect_SoundFlash(r, flags, sc0, sc1)
    [] effect = 22 -> Effect_SoundSlider(r, flags, sc0, sc1)
    [] effect = 23 -> Effect_SoundShift(r, flags, sc0, sc1)
    [] effect = 24 -> Effect_Ambient(r, flags, sc0, sc1)
    [] effect = 33 -> Effect_ColorGradient(r, flags, sc0, sc1)
    [] OTHER -> Err(r, InvalidValue("Effect", effect))

\* the `match effect { ... }` of Option<Controller>::decode, selector 0x00 apart
Effect_dispatch(r, effect, flags, sc0, sc1) ==
  CASE effect = 1 -> Effect_Static(r, flags, sc0, sc1)
    [] effect = 2 -> Effect_Breathing(r, flags, sc0, sc1)
    [] effect = 3 -> Effect_Rainbow(r, flags, sc0, sc1)
    [] effect = 4 -> Effect_Blink(r, flags, sc0, sc1)
    [] effect = 5 -> Effect_ColorChange(r, flags, sc0, sc1)
    [] effect = 7 -> Effect_Sequence(r, flags, sc0, sc1)
    [] effect \in {8, 9} -> Effect_Scanner(r, effect, flags, sc0, sc1)
    [] effect = 10 -> Effect_Wave(r, flags, sc0, sc1)
    [] effect = 11 -> Effect_ColorSequence(r, flags, sc0, sc1)
    [] effect = 12 -> Effect_ColorShift(r, flags, sc0, sc1)
    [] effect \in {13, 21} -> Effect_BarGraph(r, effect, flags, sc0, sc1)
    [] effect = 14 -> Effect_Flame(r, flags, sc0, sc1)
    [] effect \in 15..17 -> Effect_Rain(r, effect, flags, sc0, sc1)
    [] effect = 18 -> Effect_ColorSwitch(r, flags, sc0, sc1)
    [] effect = 19 -> Effect_SwipingRainbow(r, flags, sc0, sc1)
    [] effect = 20 -> Effect_SoundFlash(r, flags, sc0, sc1)
    [] effect = 22 -> Effect_SoundSlider(r, flags, sc0, sc1)
    [] effect = 23 -> Effect_SoundShift(r, flags, sc0, sc1)
    [] effect = 24 -> Effect_Ambient(r, flags, sc0, sc1)
    [] effect = 33 -> Effect_ColorGradient(r, flags, sc0, sc1)
    [] OTHER -> Err(r, InvalidValue("Effect", effect))

\* lines 1131-1147: the arm's effect, the trailing byte, Some(Controller)
\* Some(Controller) returned without the trailing reserved byte being read.
Option_Controller_some_untrailed(offset, length, data_source, rising, falling, body) ==
  Return(<<body>>, guard(body,
    Some([offset |-> offset.val, length |-> length.val,
          data_source |-> data_source.val,
          sensor_attenuation_rising |-> rising.val,
          sensor_attenuation_falling |-> falling.val,
          effect |-> body.val])))

Option_Controller_some(offset, length, data_source, rising, falling, body) ==
  LET s1 == skip(body, 1)
  IN Return(<<s1>>, guard(s1,
       Some([offset |-> offset.val, length |-> length.val,
             data_source |-> data_source.val,
             sensor_attenuation_rising |-> rising.val,
             sensor_attenuation_falling |-> falling.val,
             effect |-> body.val])))

\* The match with the arm of selector 0x00 reading one reserved byte less.
Option_Controller_match_short(h, offset, length, effect, flags, data_source, rising, falling) ==
  IF Returned(h) THEN h
  ELSE IF effect.val = 0 THEN decode_opt_skip(skip(h, 60))
  ELSE Option_Controller_some(offset, length, data_source, rising, falling,
         Effect_dispatch(h, effect.val, flags.val,
                         flag_set(flags.val, 16384), flag_set(flags.val, 32768)))

\* lines 550-1131: the match on the selector, h the reader after the header
Option_Controller_match(h, offset, length, effect, flags, data_source, rising, falling) ==
  IF Returned(h) THEN h
  ELSE IF effect.val = 0 THEN decode_opt_skip(skip(h, 61))
  ELSE Option_Controller_some(offset, length, data_source, rising, falling,
         Effect_dispatch(h, effect.val, flags.val,
                         flag_set(flags.val, 16384), flag_set(flags.val, 32768)))

Option_Controller_decode(r) ==
  LET offset == read_u8(r)
      length == read_u8(offset)
      effect == read_u8(length)
      flags == read_u16be(effect)
      data_source == decode(flags, "Option<DataSource>")
      sensor_attenuation_rising == read_u8(data_source)
      sensor_attenuation_falling == read_u8(sensor_attenuation_rising)
  IN AndThen(<<offset, length, effect, flags, data_source,
               sensor_attenuation_rising, sensor_attenuation_falling>>,
       Option_Controller_match(sensor_attenuation_falling, offset, length, effect,
         flags, data_source, sensor_attenuation_rising, sensor_attenuation_falling))

\* into_iter().flatten().collect(): the Some items, in order
\* flatten().collect() taking the present items from the back
Flatten_reversed(items) ==
  LET some == SelectSeq(items, LAMBDA c: c.tag = "Some")
  IN [i \in 1..Len(some) |-> some[Len(some) + 1 - i].v]

Flatten(items) ==
  LET some == SelectSeq(items, LAMBDA c: c.tag = "Some")
  IN [i \in 1..Len(some) |-> some[i].v]

\* The flags branch that leaves the eight slots unread when lighting is off.
Option_LightingSettings_match_unread(h, brightness, flags) ==
  IF Returned(h) THEN h
  ELSE IF BitAnd(flags.val, 2) # 0
  THEN decode_opt_skip(h)
  ELSE LET strip_controllers == decode(h, "[Option<Controller>; 6]")
           sensor_controllers == decode(strip_controllers, "[Option<Controller>; 2]")
       IN Return(<<strip_controllers, sensor_controllers>>, guard(sensor_controllers,
            Some([brightness |-> brightness.val,
                  strip_controllers |-> Flatten(strip_controllers.val),
                  sensor_controllers |-> Flatten(sensor_controllers.val)])))

\* lines 36-51: h the reader after the header
Option_LightingSettings_match(h, brightness, flags) ==
  IF Returned(h) THEN h
  ELSE IF BitAnd(flags.val, 2) # 0
  THEN decode_opt_skip(skip_bytes(h, "[Option<Controller>; 8]"))
  ELSE LET strip_controllers == decode(h, "[Option<Controller>; 6]")
           sensor_controllers == decode(strip_controllers, "[Option<Controller>; 2]")
       IN Unwind(Return(<<strip_controllers, sensor_controllers>>, guard(sensor_controllers,
            Some([brightness |-> brightness.val,
                  strip_controllers |-> Flatten(strip_controllers.val),
                  sensor_controllers |-> Flatten(sensor_controllers.val)]))),
            \/ Len(Flatten(strip_controllers.val)) > 6
            \/ Len(Flatten(sensor_controllers.val)) > 2)

Option_LightingSettings_decode(r) ==
  LET brightness == decode(r, "Brightness")
      s1 == skip(brightness, 1)
      flags == read_u8(s1)
      s2 == skip(flags, 1)
  IN AndThen(<<brightness, s1, flags, s2>>,
       Option_LightingSettings_match(s2, brightness, flags))

(***************************************************************************)
(* Settings (protocol/settings/mod.rs) and Frame (protocol/mod.rs).        *)
(***************************************************************************)
\* from_fn pairing each flow with the correction value of the next index
Settings_flow_correction_shifted(flows, values) ==
  [i \in 1..10 |-> <<flows[i], values[(i % 10) + 1]>>]

\* lines 61-66: from_fn(|i| (flow_correction_flows[i], flow_correction_values[i]))
Settings_flow_correction(flows, values) ==
  [i \in 1..10 |-> <<flows[i], values[i]>>]

Settings_decode(r) ==
  LET version == read_u16be(r)
      display == decode(version, "DisplaySettings")
      increased_current_draw == decode(display, "Option<CurrentDraw>")
      aqua_bus_address == decode(increased_current_draw, "AquaBusAddress")
      water_temp_offset == decode(aqua_bus_address, "TempOffset")
      external_temp_offset == decode(water_temp_offset, "TempOffset")
      medium == decode(external_temp_offset, "Medium")
      connector_type == decode(medium, "ConnectorType")
      flow_correction_values == 
        decode(connector_type, "[FlowCorrection; 10]")
      flow_correction_flows == 
        decode(flow_correction_values, "[Flow; 10]")
      lighting == decode(flow_correction_flows, "Option<LightingSettings>")
      standby_flags == decode(lighting, "StandbyFlags")
      s1 == skip(standby_flags, 2)
      conductivity_offset == decode(s1, "ConductivityOffset")
      water_quality_max == decode(conductivity_offset, "Conductivity")
      water_quality_min == decode(water_quality_max, "Conductivity")
      s2 == skip(water_quality_min, 1)
      power_flags == decode(s2, "PowerFlags")
      power_damping == decode(power_flags, "PowerDamping")
      alarms == decode(power_damping, "AlarmSettings")
      s3 == skip(alarms, 1)
  IN Return(<<version, display, increased_current_draw, aqua_bus_address,
                    water_temp_offset, external_temp_offset, medium, connector_type,
                    flow_correction_values, flow_correction_flows, lighting,
                    standby_flags, s1, conductivity_offset, water_quality_max,
                    water_quality_min, s2, power_flags, power_damping, alarms, s3>>, guard(s3,
       [system |->
          [standby_flags |-> standby_flags.val,
           aqua_bus_address |-> aqua_bus_address.val,
           increased_current_draw |-> increased_current_draw.val],
        sensor |->
          [medium |-> medium.val,
           connector_type |-> connector_type.val,
           flow_correction |->
             Settings_flow_correction(flow_correction_flows.val, flow_correction_values.val),
           water_temp_offset |-> water_temp_offset.val,
           external_temp_offset |-> external_temp_offset.val,
           conductivity_offset |-> conductivity_offset.val,
           water_quality_max |-> water_quality_max.val,
           water_quality_min |-> water_quality_min.val,
           power_flags |-> power_flags.val,
           power_damping |-> power_damping.val],
        alarms |-> alarms.val,
        display |-> display.val,
        lighting |-> lighting.val]))

\* finalize handing out the running register, without the final inversion
CrcReader_finalize_raw(r) == DigestUpdate(CRC_digest, r.digest)

\* CrcReader::finalize
CrcReader_finalize(r) == Checksum(r.digest)

\* Frame::decode, line 29: the operation code, read from the reader itself
Frame_read_op_code(r) == Reader_read_u8(r)

\* line 30: CrcReader::new(reader)
CrcReader_new(r) == [r EXCEPT !.crc = TRUE, !.digest = <<>>]

\* Ok(Frame::Settings(settings)) around the decoded payload
Frame_Settings(ret) ==
  Finish(ret, guard(ret, [frame |-> "Settings", settings |-> ret.val]))

\* The match on the operation code with a catch-all arm that decodes Settings.
Frame_dispatch_catch_all(crc, code) == Frame_Settings(decode(crc, "Settings"))

\* The payload's Result kept aside instead of returned by `?`, so that the
\* checksum is read before it is looked at.
Frame_dispatch_deferred(crc, code) ==
  IF code = 3
  THEN [decode(crc, "Settings") EXCEPT !.ok = TRUE]
  ELSE Err(crc, InvalidValue("OpCode", code))

\* lines 33-39: the payload, decoded through the CrcReader
Frame_dispatch(crc, code) ==
  IF code = 3
  THEN Frame_Settings(decode(crc, "Settings"))
  ELSE Err(crc, InvalidValue("OpCode", code))

\* crc_expected against no crc_actual: the frame is handed back as it is.
Frame_compare_unchecked(p, x) == IF Returned(x) THEN x ELSE Ok(x, p.val)

\* lines 45-49: the comparison of the two checksums
Frame_compare(p, x) ==
  IF Returned(x) THEN x
  ELSE IF CrcReader_finalize(p) # x.val THEN Err(x, ChecksumMismatch)
  ELSE Ok(x, p.val)

\* The checksum read and handed back without the comparison of line 45.
Frame_verify_unchecked(p) ==
  IF Returned(p) THEN p
  ELSE Frame_compare_unchecked(p, Reader_read_u16be([p EXCEPT !.crc = FALSE]))

\* One checksum byte read from the reader, and no comparison.
Frame_verify_narrow(p) ==
  IF Returned(p) THEN p
  ELSE Frame_compare_unchecked(p, Reader_read_u8([p EXCEPT !.crc = FALSE]))

\* lines 42-49: crc.finalize(), the checksum read from the reader itself
Frame_verify(p) ==
  IF Returned(p) THEN p
  ELSE Frame_compare(p, Reader_read_u16be([p EXCEPT !.crc = FALSE]))

\* lines 29-39: the operation code, then the payload behind a CrcReader
Frame_payload(code) ==
  IF Returned(code) THEN code
  ELSE Frame_dispatch(CrcReader_new(code), code.val)

Frame_decode(r) == Frame_verify(Frame_payload(Frame_read_op_code(r)))

(***************************************************************************)
(* The impls of Decode by the name of the type.                            *)
(***************************************************************************)
WrappedNames == RangedNames \cup DOMAIN SimpleTags

\* the [T; N] this program decodes
ArrayTypes ==
  "[Chart; 4]" :> [of |-> "Chart", n |-> 4]
  @@ "[Color; 2]" :> [of |-> "Color", n |-> 2]
  @@ "[Color; 3]" :> [of |-> "Color", n |-> 3]
  @@ "[Color; 4]" :> [of |-> "Color", n |-> 4]
  @@ "[Color; 5]" :> [of |-> "Color", n |-> 5]
  @@ "[Color; 6]" :> [of |-> "Color", n |-> 6]
  @@ "[u16; 3]" :> [of |-> "u16", n |-> 3]
  @@ "[u16; 6]" :> [of |-> "u16", n |-> 6]
  @@ "[SoundEffect; 4]" :> [of |-> "SoundEffect", n |-> 4]
  @@ "[SoundEffectSpeed; 2]" :> [of |-> "SoundEffectSpeed", n |-> 2]
  @@ "[SoundEffectSpeed; 4]" :> [of |-> "SoundEffectSpeed", n |-> 4]
  @@ "[FlowCorrection; 10]" :> [of |-> "FlowCorrection", n |-> 10]
  @@ "[Flow; 10]" :> [of |-> "Flow", n |-> 10]
  @@ "[Option<Controller>; 2]" :> [of |-> "Option<Controller>", n |-> 2]
  @@ "[Option<Controller>; 6]" :> [of |-> "Option<Controller>", n |-> 6]
  @@ "[Option<Controller>; 8]" :> [of |-> "Option<Controller>", n |-> 8]

\* impl Decode for T, by the name of T
Decode_decode(r, t) ==
  CASE t \in WrappedNames -> Wrapped_decode(r, t)
    [] t \in DOMAIN ArrayTypes -> Array_decode(r, ArrayTypes[t].n, ArrayTypes[t].of)
    [] t = "u8" -> u8_decode(r)
    [] t = "u16" -> u16_decode(r)
    [] t = "i16" -> i16_decode(r)
    [] t = "TemperatureUnit" -> TemperatureUnit_decode(r)
    [] t = "FlowUnit" -> FlowUnit_decode(r)
    [] t = "DisplayBrightness" -> DisplayBrightness_decode(r)
    [] t = "Option<DisplayBrightness>" -> Option_DisplayBrightness_decode(r)
    [] t = "ChartSource" -> ChartSource_decode(r)
    [] t = "Medium" -> Medium_decode(r)
    [] t = "ConnectorType" -> ConnectorType_decode(r)
    [] t = "OutputSignal" -> OutputSignal_decode(r)
    [] t = "SoundEffect" -> SoundEffect_decode(r)
    [] t = "StandbyFlags" -> StandbyFlags_decode(r)
    [] t = "PowerFlags" -> PowerFlags_decode(r)
    [] t = "AlarmFlags" -> AlarmFlags_decode(r)
    [] t = "DisplayFlags" -> DisplayFlags_decode(r)
    [] t = "PageFlags" -> PageFlags_decode(r)
    [] t = "Option<NextPageInterval>" -> Option_NextPageInterval_decode(r)
    [] t = "Chart" -> Chart_decode(r)
    [] t = "DisplaySettings" -> DisplaySettings_decode(r)
    [] t = "Option<CurrentDraw>" -> Option_CurrentDraw_decode(r)
    [] t = "AlarmSettings" -> AlarmSettings_decode(r)
    [] t = "SourceControl" -> SourceControl_decode(r)
    [] t = "Color" -> Color_decode(r)
    [] t = "Option<DataSource>" -> Option_DataSource_decode(r)
    [] t = "Option<Controller>" -> Option_Controller_decode(r)
    [] t = "Option<LightingSettings>" -> Option_LightingSettings_decode(r)
    [] t = "Settings" -> Settings_decode(r)
    [] t = "Frame" -> Frame_decode(r)

call(r, f, a) ==
  CASE Returned(r) -> r
    [] f = "skip" -> Reader_skip(r, a)
    [] f = "read_u8" -> Reader_read_u8(r)
    [] f = "read_u16be" -> Reader_read_u16be(r)
    [] f = "read_i16be" -> Reader_read_i16be(r)
    [] f = "skip_bytes" -> Decode_skip_bytes(r, a)
    [] f = "decode_opt" -> Decode_decode_opt(r, a[1], a[2])
    [] f = "decode" -> Decode_decode(r, a)

(***************************************************************************)
(* Byte sources.  The encoders below are the inverse of the big-endian     *)
(* reads; they only build the inputs handed to the decoder.                *)
(***************************************************************************)
NumBases == 4
FlipStride == 13
PatchStride == 3
PrefixStride == 7
OpCodeStride == 5
Around == 2
RawStride == 1021

U16(v) == <<v \div 256, v % 256>>
I16(v) == U16(IF v < 0 THEN v + 65536 ELSE v)
Rep(n, b) == [k \in 1..n |-> b]

RECURSIVE Concat(_)
Concat(seqs) == IF seqs = <<>> THEN <<>> ELSE Head(seqs) \o Concat(Tail(seqs))

\* the selectors Option<Controller>::decode has an arm for
Selectors ==
  <<1, 2, 3, 0, 4, 5, 7, 8, 10, 11, 12, 13, 14, 15, 16, 17,
    18, 19, 20, 21, 22, 23, 24, 33, 9>>

\* 60 body bytes every arm accepts: two source-control blocks, then
\* big-endian words of value 2 (colors: four bytes each)
BodyBytes == <<0, 10, 3, 232, 5, 200, 0, 20, 1, 244, 15, 100>> \o Concat(Rep(24, <<0, 2>>))

SlotBytes(offset, length, effect, flags, source, body) ==
  <<offset, length, effect>> \o U16(flags) \o U16(source) \o <<7, 9>> \o body \o <<0>>

LightingDisabled(i) == i % 4 = 2

\* the controller slot j (0..7) of base frame i
BaseSlot(i, j) ==
  LET ord == IF LightingDisabled(i) THEN i ELSE i - ((i + 2) \div 4)
      n == 8 * (ord - 1) + j
      effect == Selectors[(n % Len(Selectors)) + 1]
      flags == 16384 * (n % 4) + (n % 64)
      source == IF n % 5 = 4 THEN 65535 ELSE IF n % 5 = 3 THEN 28 ELSE n % 14
  IN SlotBytes(10 * j, 10, effect, flags, source, BodyBytes)

BasePayload(i) ==
  LET display ==
        <<i % 2, (i + 1) % 2, 0, IF i % 3 = 0 THEN 255 ELSE 3 + (i % 58), 0, 0>>
        \o U16((4097 * i) % 65536) \o <<0, 0, 0, 0>>
        \o <<i % 3, i % 4>> \o <<0, 0, 0, 0>> \o <<(13 * i) % 256>>
        \o Concat([k \in 1..4 |-> <<0, (i + k) % 7>> \o U16(100 * k + i)])
      current_draw ==
        <<0, i % 2>> \o U16(IF i % 2 = 1 THEN 500 + 100 * (i % 16) ELSE 0)
      sensor ==
        <<58 + (i % 4)>> \o I16(i - 1500) \o I16(1500 - i) \o <<i % 2, (i + 1) % 2>>
        \o Concat([k \in 1..10 |-> I16(1000 * k - 5000)])
        \o Concat([k \in 1..10 |-> U16(300 * k)])
      lighting ==
        <<200 + (i % 56), 0, IF LightingDisabled(i) THEN 2 ELSE 0, 0>>
        \o Concat([j \in 1..8 |-> BaseSlot(i, j - 1)])
      tail ==
        <<(37 * i) % 256, 0, 0>> \o I16(i - 500) \o U16(2000 - i) \o U16(i)
        \o <<0, i % 2>> \o U16(10000 - i)
      alarms ==
        <<(32 * i) % 256, (5 * i) % 16, 0, i % 101>> \o U16(3000 - i)
        \o U16(10000 - i) \o U16(i) \o U16(5000 + i) \o <<i % 6>>
  IN U16(1000 + i) \o display \o current_draw \o sensor \o lighting \o tail
     \o alarms \o <<0>>

FrameBytes(code, payload) == <<code>> \o payload \o U16(Checksum(payload))

BaseFrames == [i \in 1..NumBases |-> FrameBytes(3, BasePayload(i))]

PayloadLen == Len(BasePayload(1))
FrameLen == Len(BaseFrames[1])

Modes == {"Value", "Skip"}

Origin(b, k, a, w) == [base |-> b, kind |-> k, at |-> a, with |-> w]

\* the byte sequence an origin stands for
MakeInput(o) ==
  LET f == BaseFrames[o.base]
  IN CASE o.kind = "base" -> f
       [] o.kind \in {"flip", "crc", "opcode"} -> [f EXCEPT ![o.at] = o.with]
       [] o.kind = "patch" ->
            FrameBytes(3, [SubSeq(f, 2, PayloadLen + 1) EXCEPT ![o.at - 1] = o.with])
       [] o.kind = "prefix" -> SubSeq(f, 1, o.at)
       [] OTHER -> <<>>

\* the byte values put in the place of the byte `old`
Changed(old) == {(old + 1) % 256, 255 - old}

\* base frames; single payload bytes changed with the checksum left alone
\* ("flip") or computed anew ("patch"); checksum bytes changed ("crc");
\* proper prefixes; other operation codes
FrameOrigins ==
  LET B == 1..NumBases
      P == 2..(PayloadLen + 1)
  IN {Origin(b, "base", 0, 0) : b \in B}
     \cup UNION {{Origin(b, "flip", at, w) : w \in Changed(BaseFrames[b][at])} :
                   <<b, at>> \in {x \in B \X P : (x[2] + 3 * x[1]) % FlipStride = 0}}
     \cup {Origin(x[1], "patch", x[2], (BaseFrames[x[1]][x[2]] + 1) % 256) :
             x \in {y \in B \X P : (y[2] + y[1]) % PatchStride = 1}}
     \cup UNION {{Origin(b, "crc", at, w) : w \in Changed(BaseFrames[b][at])} :
                   <<b, at>> \in B \X {FrameLen - 1, FrameLen}}
     \cup {Origin(x[1], "prefix", x[2], 0) :
             x \in {y \in B \X (0..(FrameLen - 1)) :
                      \/ y[2] \in {0, 1, 2, FrameLen - 2, FrameLen - 1}
                      \/ (y[2] + y[1]) % PrefixStride = 0}}
     \cup {Origin(b, "opcode", 1, c) :
             b \in B, c \in {d \in Byte : d # 3 /\ (d % OpCodeStride = 0 \/ d \in {2, 4, 255})}}

(***************************************************************************)
(* Frame::decode on a reader over `input`: a value reader ("Value") or the *)
(* SkipReader skip_bytes wraps around it ("Skip").  The steps are the      *)
(* statements of protocol/mod.rs lines 26-51.                              *)
(***************************************************************************)
Init ==
  /\ origin \in FrameOrigins
  /\ input = MakeInput(origin)
  /\ ty = "Frame"
  /\ pc = "start"
  /\ \E m \in Modes : rd = NewReader(input, m = "Skip")
  /\ op_code = 0

\* The `?` behind a step of Frame::decode: on Ok the function goes on at
\* `next`, on Err it returns.
Step(r, next) ==
  /\ rd' = r
  /\ pc' = IF r.ok THEN next ELSE "done"

\* let op_code = reader.read_u8()?
ReadOpCode ==
  /\ pc = "start"
  /\ Step(Frame_read_op_code(rd), "payload")
  /\ op_code' = IF rd'.ok THEN rd'.val ELSE op_code
  /\ UNCHANGED <<input, origin, ty>>

\* let mut crc = CrcReader::new(reader); let ret = match op_code { ... }
Dispatch ==
  /\ pc = "payload"
  /\ Step(Frame_dispatch(CrcReader_new(rd), op_code), "verify")
  /\ UNCHANGED <<input, origin, ty, op_code>>

\* crc.finalize(), reader.read_u16be()?, the comparison, Ok(ret)
Verify ==
  /\ pc = "verify"
  /\ rd' = Frame_verify(rd)
  /\ pc' = "done"
  /\ UNCHANGED <<input, origin, ty, op_code>>

Next == ReadOpCode \/ Dispatch \/ Verify

Spec == Init /\ [][Next]_vars

(***************************************************************************)
(* T::decode for each decodable type T, on a value reader or a SkipReader  *)
(* over `input`.                                                           *)
(***************************************************************************)
\* the width and the value range of the primitive a wrapper is built on
Width(base) == IF base = "u8" THEN 1 ELSE 2
Lowest(base) == IF base = "i16" THEN -32768 ELSE 0
Highest(base) == CASE base = "u8" -> 255 [] base = "u16" -> 65535 [] base = "i16" -> 32767

Encode(base, v) == IF base = "u8" THEN <<v>> ELSE I16(v)

\* the primitive value the first bytes of `bytes` hold
Raw(base, bytes) ==
  CASE base = "u8" -> bytes[1]
    [] base = "u16" -> u16_from_be_bytes(bytes)
    [] base = "i16" -> i16_from_be_bytes(bytes)

\* raw values at and around the bounds of a wrapper and of its primitive, and
\* every RawStride-th value in between
RawValues(tag) ==
  LET t == TagOf(tag)
  IN ((t.min - Around)..(t.min + Around) \cup (t.max - Around)..(t.max + Around)
      \cup {Lowest(t.base), Highest(t.base), 0}
      \cup {RawStride * k :
              k \in (Lowest(t.base) \div RawStride)..(Highest(t.base) \div RawStride)})
     \cap Lowest(t.base)..Highest(t.base)

\* every proper prefix of `bytes`, and `bytes` followed by one more byte
Around_bytes(bytes) ==
  {SubSeq(bytes, 1, n) : n \in 0..Len(bytes)} \cup {bytes \o <<170>>}

\* controller slots: every selector under two flag words; data sources, known
\* or not; single body bytes raised out of range; short slots
SlotInputs ==
  {SlotBytes(1, 2, e, f, 0, BodyBytes) : e \in Byte, f \in {0, 49195}}
  \cup {SlotBytes(1, 2, Selectors[k], f, 0, BodyBytes) :
          k \in 1..Len(Selectors), f \in {16384, 32768, 49152, 16383}}
  \cup {SlotBytes(1, 2, e, 16384, src, BodyBytes) :
          e \in {0, 1, 6, 18, 33, 34}, src \in {5, 13, 14, 27, 28, 65535, 65534}}
  \cup {SlotBytes(1, 2, e, 49152, 0, [BodyBytes EXCEPT ![at] = 255]) :
          e \in {Selectors[k] : k \in 1..Len(Selectors)},
          at \in {k \in 13..60 : k % (2 * Around) = 0}}
  \cup {SubSeq(SlotBytes(1, 2, e, 0, 0, BodyBytes), 1, n) :
          e \in {0, 3, 6, 20}, n \in {0, 2, 3, 8, 9, 15, 69}}
  \cup {SlotBytes(o, 255, 0, f, src, Rep(60, 255)) \o tail :
          o \in {0, 255}, f \in {0, 65535}, src \in {0, 28, 65535}, tail \in {<<>>, <<1>>}}

LightingBytes(i) == SubSeq(BasePayload(i), 89, 652)

\* selector fields: every code of the one-byte selectors, and the two-byte
\* codes at and around the known ones
EnumInputs ==
  {<<t, b>> : t \in {"TemperatureUnit", "FlowUnit", "DisplayBrightness",
                      "Option<DisplayBrightness>", "ChartSource", "Medium",
                      "ConnectorType", "OutputSignal"},
              b \in {<<v>> : v \in Byte} \cup {<<>>}}
  \cup {<<t, b>> : t \in {"SoundEffect", "Option<DataSource>"},
                   b \in {U16(v) : v \in 0..32 \cup {255, 256, 1280, 7168, 65534, 65535}}
                         \cup {<<>>, <<0>>}}

\* alarm settings: every combination of the four limit bits, each limit at and
\* one above its maximum; start-up delays and output signals, valid or not
AlarmBytes(flags, alarms, delay, flow, water, ext, quality, signal) ==
  <<flags, alarms, 0, delay>> \o U16(flow) \o U16(water) \o U16(ext) \o U16(quality)
    \o <<signal>>

AlarmInputs ==
  {AlarmBytes(224, alarms, ds[1], flow, water, ext, quality, ds[2]) :
     alarms \in 0..15 \cup {240, 255}, ds \in {<<100, 5>>, <<101, 5>>, <<100, 6>>},
     flow \in {3000, 3001}, water \in {10000, 10001}, ext \in {0, 10001},
     quality \in {10000, 65535}}
  \cup {SubSeq(AlarmBytes(0, 15, 0, 1, 2, 3, 4, 0), 1, n) : n \in 0..12}

\* current-draw overrides: the gating bit among other bits, values at and
\* around the range
CurrentDrawInputs ==
  {<<170, flags>> \o U16(val) :
     flags \in {0, 1, 2, 3, 254, 255}, val \in {0, 499, 500, 2000, 2001, 65535}}
  \cup {SubSeq(<<0, 1, 3, 232>>, 1, n) : n \in 0..3}

\* settings payloads under several lighting flag bytes, one byte of the
\* first or the sixth controller slot raised to 255 (`at` = 91 leaves the
\* slots alone)
LightingFlagInputs ==
  {[[BasePayload(i) EXCEPT ![at] = 255] EXCEPT ![91] = f] :
     i \in 1..NumBases, f \in {0, 1, 2, 3, 253, 254, 255},
     at \in {91, 95, 98, 106, 114, 116, 445}}

\* lighting blocks, lighting on: slot j (1..8) holds an effect exactly when
\* bit j - 1 of `mask` is set; the offset byte of slot j is 10 * j
MaskedSlot(mask, j) ==
  LET e == Selectors[((3 * mask + j) % Len(Selectors)) + 1]
      present == (mask \div (2 ^ (j - 1))) % 2 = 1
  IN SlotBytes(10 * j, j, IF ~present THEN 0 ELSE IF e = 0 THEN 9 ELSE e,
               16384 * (j % 4), 0, BodyBytes)

MaskedLighting(mask) ==
  <<200, 0, mask % 2, 0>> \o Concat([j \in 1..8 |-> MaskedSlot(mask, j)])

\* settings payloads whose ten correction values (bytes 49..68) and ten flow
\* values (bytes 69..88) differ from index to index and from seed to seed
FlowCorrectionInputs ==
  {SubSeq(BasePayload(1), 1, 48)
     \o Concat([k \in 1..10 |-> I16(((37 * seed * k) % 10001) - 5000)])
     \o Concat([k \in 1..10 |-> U16((113 * seed * k + seed) % 3001)])
     \o SubSeq(BasePayload(1), 89, PayloadLen) : seed \in 1..12}

\* where the arm of a selector that reads a color count holds the count (the
\* index of its high byte within the 60 body bytes)
CountAtBody(e) ==
  CASE e \in {4, 5} -> 15
    [] e = 7 -> 17
    [] e = 18 -> 13
    [] OTHER -> 19

\* body bytes with the count c in the place the arm of selector e reads it
\* from, and six pairwise different colors in the 24 bytes of color slots
CountBody(e, c) ==
  LET counted == [k \in 1..36 |->
                    IF k = CountAtBody(e) THEN c \div 256
                    ELSE IF k = CountAtBody(e) + 1 THEN c % 256
                    ELSE BodyBytes[k]]
  IN counted \o Concat([k \in 1..6 |-> <<k % 6, 10 * k, 20 * k, 255 - k>>])

CountInputs ==
  {SlotBytes(1, 2, e, f, 0, CountBody(e, c)) :
     e \in {4, 5, 7, 10, 11, 13, 21, 18, 33}, f \in {0, 49152},
     c \in 0..7 \cup {255, 256, 65535}}

\* bar-graph slots (selectors 0x0D and 0x15) whose start value and three
\* color values differ from one another, under flag words that set single
\* blink bits, their neighbours, and several at once
BarGraphInputs ==
  {SlotBytes(1, 2, e, f, 0,
             [CountBody(e, c) EXCEPT ![13] = seed, ![14] = 17, ![21] = 2 * seed, ![22] = 33,
                                     ![23] = 0, ![24] = seed, ![25] = 255, ![26] = 254]) :
     e \in {13, 21}, c \in 0..4, seed \in {1, 200},
     f \in {64, 128, 256, 512, 1024, 2048, 640, 1280, 1920, 63}}

\* slots of the selectors that share an arm, cut short inside the header,
\* the source-control blocks, the fields and the colors
ShapeInputs ==
  {SubSeq(SlotBytes(1, 2, e, f, 0, BodyBytes), 1, n) :
     e \in {8, 9, 13, 21, 15, 16, 17}, f \in {0, 49152}, n \in {3, 9, 14, 21, 40, 69}}

\* every byte as a next-page interval, alone and with a byte behind it
NextPageInputs ==
  {<<v>> \o tail : v \in Byte, tail \in {<<>>, <<9>>}} \cup {<<>>}

\* flag fields: every byte for the one-byte sets, words of single bits,
\* mixed bits and all bits for the page flags; with and without the bytes
\* they need
FlagInputs ==
  {<<t, <<v>> \o tail>> : t \in {"StandbyFlags", "PowerFlags", "AlarmFlags", "DisplayFlags"},
                           v \in Byte, tail \in {<<>>, <<255>>}}
  \cup {<<"PageFlags", SubSeq(U16(w) \o <<7>>, 1, n)>> :
          w \in {2 ^ k : k \in 0..15} \cup {0, 255, 256, 4660, 21845, 43690, 65535},
          n \in 0..3}
  \cup {<<t, <<>>>> : t \in {"StandbyFlags", "PowerFlags", "AlarmFlags", "DisplayFlags"}}

\* frames around payloads that differ in their presence flags, their lighting
\* state and their field values, with and without bytes behind the checksum
FrameWidthPayloads ==
  {[[BasePayload(i) EXCEPT ![at] = 255] EXCEPT ![91] = f] :
     i \in 1..NumBases, f \in {0, 2, 255}, at \in {91, 95, 114}}
  \cup {[BasePayload(i) EXCEPT ![27] = cd, ![667] = al] :
          i \in {1, 2}, cd \in {0, 1}, al \in {0, 15}}
  \cup {b \in FlowCorrectionInputs : b[49] < 240}

FrameWidthInputs ==
  {FrameBytes(3, b) \o tail :
     b \in FrameWidthPayloads, tail \in {<<>>, <<0>>, <<255, 1, 2>>}}

TypeInputs ==
  UNION {{<<t, b>> : b \in Around_bytes(<<x>>)} :
           <<t, x>> \in {"u8"} \X {0, 1, 127, 128, 255}}
  \cup UNION {{<<t, b>> : b \in Around_bytes(x)} :
                <<t, x>> \in {"u16", "i16"} \X ({0, 127, 128, 255} \X {0, 128, 255})}
  \cup UNION {UNION {{<<tag, b>> : b \in Around_bytes(Encode(TagOf(tag).base, v))} :
                       v \in RawValues(tag)} : tag \in WrappedNames}
  \cup EnumInputs
  \cup {<<"AlarmSettings", b>> : b \in AlarmInputs}
  \cup {<<"Option<CurrentDraw>", b>> : b \in CurrentDrawInputs}
  \cup {<<"SourceControl", b>> : b \in Around_bytes(SubSeq(BodyBytes, 1, 6))}
  \cup {<<"SourceControl", b>> : b \in Around_bytes(<<255, 254, 1, 0, 128, 127>>)}
  \cup {<<"Color", b>> : b \in Around_bytes(<<5, 128, 255, 64>>)}
  \cup {<<"[u16; 3]", b>> : b \in Around_bytes(<<0, 1, 2, 3, 255, 255>>)}
  \cup {<<"[Color; 4]", b>> : b \in Around_bytes(SubSeq(BodyBytes, 1, 16))}
  \cup {<<"[Flow; 10]", b>> :
          b \in Around_bytes(Concat([k \in 1..10 |-> U16(300 * k)]))
                \cup {Concat([k \in 1..10 |-> U16(IF k = j THEN 3001 ELSE 300 * k)]) :
                        j \in 1..10}}
  \cup {<<"Option<Controller>", b>> : b \in SlotInputs}
  \cup {<<"Option<NextPageInterval>", b>> : b \in NextPageInputs}
  \cup FlagInputs
  \cup {<<"Option<Controller>", b>> : b \in CountInputs}
  \cup {<<"Option<Controller>", b>> : b \in ShapeInputs}
  \cup {<<"Option<Controller>", b>> : b \in BarGraphInputs}
  \cup UNION {{<<"Option<LightingSettings>", SubSeq(LightingBytes(i), 1, n)>> :
                 n \in {0, 3, 4, 74, 563, 564}} : i \in 1..NumBases}
  \cup {<<"Option<LightingSettings>", MaskedLighting(mask)>> : mask \in 0..255}
  \cup UNION {{<<"Settings", SubSeq(BasePayload(i), 1, n)>> :
                 n \in {0, 40, PayloadLen - 1, PayloadLen}} : i \in 1..NumBases}
  \cup {<<"Settings", b>> : b \in LightingFlagInputs}
  \cup {<<"Settings", b>> : b \in FlowCorrectionInputs}
  \cup {<<"Frame", BaseFrames[i]>> : i \in 1..NumBases}
  \cup {<<"Frame", b>> : b \in FrameWidthInputs}
  \cup {<<"Frame", [BaseFrames[i] EXCEPT ![FrameLen] = 255 - @]>> : i \in 1..NumBases}

InitTypes ==
  /\ \E x \in TypeInputs : ty = x[1] /\ input = x[2]
  /\ origin = Origin(0, "bytes", 0, 0)
  /\ pc = "call"
  /\ \E m \in Modes : rd = NewReader(input, m = "Skip")
  /\ op_code = 0

\* T::decode(&mut reader)
Call ==
  /\ pc = "call"
  /\ rd' = decode(rd, ty)
  /\ pc' = "done"
  /\ UNCHANGED <<input, origin, ty, op_code>>

NextTypes == Call

SpecTypes == InitTypes /\ [][NextTypes]_vars

(***************************************************************************)
(* CrcWriter (misc/crc.rs) over an inner writer W: Write.  `rd` holds the   *)
(* CrcWriter: the bytes its inner writer accepted, its digest register,    *)
(* the Result of the last call and the number of calls made; `input` is    *)
(* the buffer of the last write and `op_code` the checksum finalize        *)
(* returned.  `offered` is history: the buffers handed to write, in order. *)
(***************************************************************************)
MaxWrites == 3

\* the buffers a caller hands to write
WriteBufs == {<<>>, <<0>>, <<255>>, <<0, 255>>, <<255, 255>>, <<1, 0, 255>>}

\* CrcWriter::new
CrcWriter_new(writer) ==
  [writer |-> writer, digest |-> CRC_digest, ret |-> Unit, calls |-> 0, offered |-> <<>>]

\* impl Write for CrcWriter: write.  The inner writer accepts the first n
\* bytes of buf and answers Ok(n), or accepts none and answers an error
\* (n < 0).
CrcWriter_write(w, buf, n) ==
  [w EXCEPT !.digest = DigestUpdate(@, buf),
            !.writer = IF n < 0 THEN @ ELSE @ \o SubSeq(buf, 1, n),
            !.ret = IF n < 0 THEN [ok |-> FALSE, n |-> 0] ELSE [ok |-> TRUE, n |-> n],
            !.calls = @ + 1,
            !.offered = @ \o buf]

\* impl Write for CrcWriter: flush, with the Result of the inner flush
CrcWriter_flush(w, ok) == [w EXCEPT !.ret = [ok |-> ok, n |-> 0], !.calls = @ + 1]

\* CrcWriter::finalize
CrcWriter_finalize(w) == DigestFinalize(w.digest)

InitWriter ==
  /\ input = <<>>
  /\ origin = Origin(0, "bytes", 0, 0)
  /\ ty = "CrcWriter"
  /\ pc = "open"
  /\ rd = CrcWriter_new(<<>>)
  /\ op_code = 0

Write ==
  /\ pc = "open" /\ rd.calls < MaxWrites
  /\ \E buf \in WriteBufs : \E n \in -1..Len(buf) :
       /\ input' = buf
       /\ rd' = CrcWriter_write(rd, buf, n)
  /\ UNCHANGED <<origin, ty, pc, op_code>>

Flush ==
  /\ pc = "open" /\ rd.calls < MaxWrites
  /\ \E ok \in BOOLEAN : rd' = CrcWriter_flush(rd, ok)
  /\ UNCHANGED <<input, origin, ty, pc, op_code>>

Finalize ==
  /\ pc = "open"
  /\ op_code' = CrcWriter_finalize(rd)
  /\ pc' = "finalized"
  /\ UNCHANGED <<input, origin, ty, rd>>

NextWriter == Write \/ Flush \/ Finalize

SpecWriter == InitWriter /\ [][NextWriter]_vars

(***************************************************************************)
(* Properties.                                                             *)
(***************************************************************************)
\* T::decode on a value reader over the same bytes
ValueRun == decode(NewReader(input, FALSE), ty)

\* C1: skip/value byte parity.  For every decodable type and every byte
\* sequence on which the Value-mode decode succeeds, the Skip-mode decode of
\* the same bytes succeeds too and has consumed the same number of bytes.
C1_SkipParity ==
  (pc = "done" /\ rd.skip /\ ValueRun.ok) => (rd.ok /\ rd.pos = ValueRun.pos)

\* C1: a Settings payload decoded through the SkipReader, all of it consumed,
\* that the value reader decodes as well.
C1_Witness ==
  /\ pc = "done" /\ rd.skip /\ ty = "Settings"
  /\ ValueRun.ok /\ rd.ok /\ rd.pos = PayloadLen /\ rd.val = Phantom

\* C2 as stated: the unmodified frame decodes, and a frame with one payload
\* byte changed fails with ChecksumMismatch, whichever byte it is.
C2_Original ==
  (pc = "done" /\ ~rd.skip) =>
    /\ origin.kind = "base" => rd.ok
    /\ origin.kind = "flip" => (~rd.ok /\ rd.err = ChecksumMismatch)

\* C2: checksum integrity.  The unmodified frame decodes successfully.  A
\* frame with one payload byte changed never decodes: it fails with
\* ChecksumMismatch when the changed payload still decodes to its end (the
\* whole frame has been consumed), and otherwise with the InvalidValue or
\* RangeError of the first field the changed byte invalidates, raised before
\* the checksum is read; never with IoError.
C2_ChecksumIntegrity ==
  (pc = "done") =>
    /\ origin.kind = "base" => (rd.ok /\ rd.pos = FrameLen)
    /\ origin.kind = "flip" =>
         /\ ~rd.ok
         /\ rd.err.kind \in {"ChecksumMismatch", "InvalidValue", "RangeError"}
         /\ rd.err = ChecksumMismatch <=> rd.pos = FrameLen
         /\ rd.err # ChecksumMismatch => rd.pos < FrameLen - 1

\* C2: a changed byte the payload decoder does not validate, caught by the
\* checksum at the end of the frame.
C2_Witness ==
  /\ pc = "done" /\ origin.kind = "flip" /\ ~rd.skip
  /\ rd.err = ChecksumMismatch /\ rd.pos = FrameLen

\* C2: a changed byte that a field's validation rejects before the checksum.
C2_WitnessPayloadError ==
  /\ pc = "done" /\ origin.kind = "flip" /\ ~rd.skip
  /\ rd.err.kind \in {"InvalidValue", "RangeError"} /\ rd.pos < FrameLen - 1

\* the big-endian u16 that follows the first n bytes of the input
TrailingU16(n) == 256 * input[n + 1] + input[n + 2]

\* C3: the checksum verdict.  When the operation code is 0x03, the payload
\* has decoded without error and two more bytes follow it, the step that
\* verifies the checksum consumes those two bytes and ends in success exactly
\* when their big-endian value equals the CRC of the payload bytes, and in
\* ChecksumMismatch, no other error, when it does not; in Value mode and in
\* Skip mode alike.
C3_ChecksumVerdict ==
  [][(pc = "verify" /\ op_code = 3 /\ rd.ok /\ Len(input) >= rd.pos + 2) =>
       LET crc == Checksum(SubSeq(input, 2, rd.pos))
       IN /\ pc' = "done"
          /\ rd'.pos = rd.pos + 2
          /\ rd'.ok <=> TrailingU16(rd.pos) = crc
          /\ ~rd'.ok => rd'.err = ChecksumMismatch
          /\ rd'.ok => rd'.val = rd.val]_vars

\* C3: a frame with one checksum byte changed, decoded through the
\* SkipReader: the payload is accepted and the verdict is ChecksumMismatch.
C3_Witness ==
  /\ pc = "done" /\ origin.kind = "crc" /\ rd.skip
  /\ rd.err = ChecksumMismatch /\ rd.pos = FrameLen
  /\ TrailingU16(PayloadLen + 1) # Checksum(SubSeq(input, 2, PayloadLen + 1))

\* the digest has been, or is about to be, compared with the checksum
Compared == pc = "verify" \/ (pc = "done" /\ (rd.ok \/ rd.err = ChecksumMismatch))

\* C4: the digest compared with the trailing checksum has been updated with
\* exactly the payload bytes, each once and in wire order: every byte after
\* the operation code up to the checksum field, the bytes read through skip
\* and through a SkipReader included, the operation code and the two
\* checksum bytes excluded.
C4_DigestCoverage ==
  Compared =>
    /\ rd.digest = SubSeq(input, 2, PayloadLen + 1)
    /\ CrcReader_finalize(rd) = Checksum(SubSeq(input, 2, PayloadLen + 1))
    /\ rd.pos = IF pc = "verify" THEN PayloadLen + 1 ELSE FrameLen

\* C4: a value decode of a frame with lighting disabled, whose eight
\* controller slots are consumed by skip_bytes, after the comparison.
C4_Witness ==
  /\ pc = "done" /\ ~rd.skip /\ rd.ok
  /\ rd.val.settings.lighting = None
  /\ Len(rd.digest) = PayloadLen /\ rd.digest[3] = input[4]

\* The number a decimal string of at most five digits stands for, and whether
\* the string is the canonical one (no leading zero, no "-0").
DigitValue(c) == CHOOSE k \in 0..9 : DigitChars[k + 1] = c

ParseDecimal(s) ==
  LET neg == s[1] = "-"
      d == IF neg THEN Tail(s) ELSE s
      n == Len(d)
      at(i) == IF i <= n THEN DigitValue(d[i]) * <<1, 10, 100, 1000, 10000>>[n - i + 1]
               ELSE 0
      m == at(1) + at(2) + at(3) + at(4) + at(5)
  IN IF neg THEN 0 - m ELSE m

Canonical(s) ==
  LET d == IF s[1] = "-" THEN Tail(s) ELSE s
  IN /\ Len(d) \in 1..5
     /\ \A i \in 1..Len(d) : \E k \in 1..10 : DigitChars[k] = d[i]
     /\ Len(d) > 1 => d[1] # "0"
     /\ s[1] = "-" => d # <<"0">>

Carries(e, min, max, v) ==
  /\ e.kind = "RangeError" /\ Len(e.text) = 3
  /\ \A i \in 1..3 : Canonical(e.text[i])
  /\ ParseDecimal(e.text[1]) = min
  /\ ParseDecimal(e.text[2]) = max
  /\ ParseDecimal(e.text[3]) = v

\* C5: range validation.  For a range-tagged wrapper with declared bounds
\* (min, max) and a raw value v of its primitive type, from_value(v) succeeds
\* exactly when min <= v <= max, the wrapper then dereferencing to v, and
\* fails otherwise with a RangeError carrying min, max and v.  The Value-mode
\* decode of the wrapper reads the primitive (one or two bytes, big-endian)
\* and gives the same verdict on the value read, its RangeError carrying the
\* three numbers as their decimal strings.
C5_RangeValidation ==
  (pc = "done" /\ ty \in RangedNames /\ ~rd.skip
     /\ Len(input) >= Width(RangedTags[ty].base)) =>
    LET t == RangedTags[ty]
        v == Raw(t.base, input)
        inRange == t.min <= v /\ v <= t.max
        made == from_value(ty, v)
    IN /\ made.ok <=> inRange
       /\ made.ok => made.val = v
       /\ ~made.ok => made.err = RangeError(t.min, t.max, v)
       /\ rd.pos = Width(t.base)
       /\ rd.ok <=> inRange
       /\ rd.ok => rd.val = v
       /\ ~rd.ok => Carries(rd.err, t.min, t.max, v)

\* C5: the upper bound of a signed wrapper accepted by the decode.
C5_Witness ==
  /\ pc = "done" /\ ty = "TempOffset" /\ ~rd.skip
  /\ input = I16(1500) /\ rd.ok /\ rd.val = 1500 /\ from_value(ty, 1500).ok

\* C5: one more than the upper bound of a wrapper refused by the decode.
C5_WitnessRefused ==
  /\ pc = "done" /\ ty = "AquaBusAddress" /\ ~rd.skip
  /\ rd.err.kind = "RangeError" /\ rd.pos = 1
  /\ rd.err.text = << <<"5", "8">>, <<"6", "1">>, <<"6", "2">> >>

Within(v, lo, hi) == lo <= v /\ v <= hi
WhenPresent(opt, lo, hi) == opt.tag = "Some" => Within(opt.v, lo, hi)

\* the ranged fields of an effect, by the types of its struct declaration:
\* percent and delay 0..100, width 1..100, rain items 1..4, sound speed 1..10
EffectWithin(e) ==
  CASE e.case = "Breathing" ->
         /\ Within(e.speed, 0, 100) /\ Within(e.intensity, 0, 100)
         /\ Within(e.delay_max_brightness, 0, 100)
         /\ Within(e.delay_min_brightness, 0, 100)
    [] e.case = "Rainbow" -> Within(e.speed, 0, 100) /\ Within(e.color_range, 0, 100)
    [] e.case \in {"Blink", "ColorChange"} -> Within(e.speed, 0, 100)
    [] e.case = "Sequence" ->
         /\ Within(e.speed, 0, 100) /\ Within(e.smoothness, 0, 100)
         /\ Within(e.delay_after_sequence, 0, 100)
         /\ Within(e.delay_before_sequence, 0, 100)
    [] e.case \in {"Scanner", "Laser", "Wave"} ->
         /\ Within(e.speed, 0, 100) /\ Within(e.smoothness, 0, 100)
         /\ Within(e.width, 1, 100)
    [] e.case = "ColorSequence" ->
         /\ Within(e.speed, 0, 100) /\ Within(e.smoothness, 0, 100)
         /\ Within(e.color_change_speed, 1, 100)
    [] e.case = "ColorShift" ->
         /\ Within(e.speed, 0, 100) /\ Within(e.color_range, 0, 100)
         /\ Within(e.total_area, 1, 100)
    [] e.case \in {"BarGraph", "SoundBars"} ->
         Within(e.rotation, 0, 100) /\ Within(e.peak_hold_time, 0, 100)
    [] e.case = "Flame" -> Within(e.intensity, 1, 100)
    [] e.case \in {"Rain", "Snow", "Stardust"} ->
         /\ Within(e.speed, 1, 100) /\ Within(e.items, 1, 4)
         /\ Within(e.size, 1, 100) /\ Within(e.smoothness, 1, 100)
    [] e.case = "SwipingRainbow" ->
         /\ Within(e.point_speed, 1, 100) /\ Within(e.point_smoothness, 1, 100)
         /\ Within(e.point_size, 1, 100) /\ Within(e.color_change_speed, 1, 100)
         /\ Within(e.color_range, 1, 100)
    [] e.case = "SoundSlider" ->
         /\ \A i \in 1..4 : Within(e.effects[i][3], 1, 10)
         /\ Within(e.rotate_color, 0, 100)
    [] e.case = "SoundShift" ->
         /\ \A i \in 1..2 : Within(e.effects[i][2], 1, 10)
         /\ Within(e.rotate_color, 0, 100) /\ Within(e.idle_speed, 0, 100)
         /\ Within(e.activity_speed, 0, 100)
    [] e.case = "ColorGradient" -> Within(e.rotation, 0, 100)
    [] e.case \in {"Static", "ColorSwitch", "SoundFlash", "Ambient"} -> TRUE

ControllersWithin(cs) == \A i \in 1..Len(cs) : EffectWithin(cs[i].effect)

SettingsWithin(st) ==
  /\ Within(st.system.aqua_bus_address, 58, 61)
  /\ WhenPresent(st.system.increased_current_draw, 500, 2000)
  /\ Within(st.sensor.water_temp_offset, -1500, 1500)
  /\ Within(st.sensor.external_temp_offset, -1500, 1500)
  /\ \A i \in 1..10 :
       /\ Within(st.sensor.flow_correction[i][1], 0, 3000)
       /\ Within(st.sensor.flow_correction[i][2], -5000, 5000)
  /\ Within(st.sensor.conductivity_offset, -500, 500)
  /\ Within(st.sensor.water_quality_max, 0, 2000)
  /\ Within(st.sensor.water_quality_min, 0, 2000)
  /\ Within(st.sensor.power_damping, 0, 10000)
  /\ Within(st.alarms.startup_delay, 0, 100)
  /\ WhenPresent(st.alarms.flow_alarm_limit, 0, 3000)
  /\ WhenPresent(st.alarms.water_temperature_limit, 0, 10000)
  /\ WhenPresent(st.alarms.external_temperature_limit, 0, 10000)
  /\ WhenPresent(st.alarms.water_quality_limit, 0, 10000)
  /\ WhenPresent(st.display.next_page_interval, 3, 60)
  /\ \A i \in 1..4 : Within(st.display.charts[i].interval, 1, 60000)
  /\ st.lighting.tag = "Some" =>
       /\ ControllersWithin(st.lighting.v.strip_controllers)
       /\ ControllersWithin(st.lighting.v.sensor_controllers)

\* C6: every Settings value a successful Value-mode decode returns has each
\* of its ranged fields inside the declared inclusive bounds: the Aqua-Bus
\* address in 58..61, the temperature offsets in -1500..1500, each flow in
\* 0..3000 and flow correction in -5000..5000, the conductivity offset in
\* -500..500, the water-quality conductivities in 0..2000, the power damping
\* in 0..10000, the start-up delay in 0..100, a present current draw in
\* 500..2000, a present page interval in 3..60, the chart intervals in
\* 1..60000, the present alarm limits within theirs, and in every controller
\* the effect's percents and delays in 0..100, widths in 1..100, rain items
\* in 1..4 and sound speeds in 1..10.
C6_SettingsInBounds ==
  (pc \in {"verify", "done"} /\ rd.ok /\ ~rd.skip) => SettingsWithin(rd.val.settings)

\* C6: a decoded Settings with the optional current draw and page interval
\* present and eight controllers under lighting.
C6_Witness ==
  /\ pc = "verify" /\ rd.ok /\ ~rd.skip
  /\ rd.val.settings.system.increased_current_draw.tag = "Some"
  /\ rd.val.settings.display.next_page_interval.tag = "Some"
  /\ rd.val.settings.alarms.flow_alarm_limit.tag = "Some"
  /\ rd.val.settings.lighting.tag = "Some"
  /\ Len(rd.val.settings.lighting.v.strip_controllers) >= 5
  /\ SettingsWithin(rd.val.settings)

\* C7: error propagation.  Once a read or a validation has failed, nothing
\* more is read from the byte source, decoding is over, and the error handed
\* to the caller is that first failure: no later field replaces it, and the
\* checksum that follows the payload is not read after a payload error.
C7_FirstErrorWins ==
  /\ rd.lateReads = 0
  /\ rd.firstErr # NoErr => (pc = "done" /\ ~rd.ok /\ rd.err = rd.firstErr)
  /\ ~rd.ok => rd.err = rd.firstErr
  /\ (~rd.ok /\ rd.err.kind \in {"InvalidValue", "RangeError"}) =>
       rd.pos <= PayloadLen + 1

\* C7: a frame with a correct checksum whose payload holds an out-of-range
\* field: the decode stops at that field, far before the checksum.
C7_Witness ==
  /\ pc = "done" /\ origin.kind = "patch" /\ ~rd.ok
  /\ rd.err.kind = "RangeError" /\ rd.firstErr = rd.err
  /\ rd.pos < PayloadLen /\ rd.lateReads = 0 /\ Len(input) = FrameLen

\* C8: short input.  Frame decode of a proper prefix of a frame that decodes
\* successfully, the empty input included, fails with IoError: never
\* success, ChecksumMismatch, InvalidValue or RangeError.
C8_ShortInput ==
  (pc = "done" /\ origin.kind = "prefix") =>
    /\ Len(input) < FrameLen
    /\ input = SubSeq(BaseFrames[origin.base], 1, Len(input))
    /\ ~rd.ok /\ rd.err = IoError

\* C8: a frame that lacks only its last checksum byte.
C8_Witness ==
  /\ pc = "done" /\ origin.kind = "prefix" /\ Len(input) = FrameLen - 1
  /\ rd.err = IoError /\ Len(rd.digest) = PayloadLen

\* C9: unknown operation code.  Frame decode of an input whose first byte c
\* is not 0x03 fails with InvalidValue("OpCode", c) after consuming exactly
\* one byte: nothing of the payload or of the checksum has been read, and the
\* digest has been fed nothing.
C9_UnknownOpCode ==
  (pc = "done" /\ Len(input) >= 1 /\ input[1] # 3) =>
    /\ ~rd.ok /\ rd.err = InvalidValue("OpCode", input[1])
    /\ rd.pos = 1 /\ rd.digest = <<>>

\* C9: the operation code 0xFF in front of an otherwise valid frame.
C9_Witness ==
  /\ pc = "done" /\ origin.kind = "opcode" /\ input[1] = 255
  /\ Len(input) = FrameLen /\ rd.err = InvalidValue("OpCode", 255) /\ rd.pos = 1

\* the selector and the data-source code in the header of a controller slot
Selector == input[3]
SourceCode == 256 * input[6] + input[7]

\* the effect case of each selector that has one
EffectTable ==
  (1 :> "Static") @@ (2 :> "Breathing") @@ (3 :> "Rainbow") @@ (4 :> "Blink")
  @@ (5 :> "ColorChange") @@ (7 :> "Sequence") @@ (8 :> "Scanner")
  @@ (9 :> "Laser") @@ (10 :> "Wave") @@ (11 :> "ColorSequence")
  @@ (12 :> "ColorShift") @@ (13 :> "BarGraph") @@ (14 :> "Flame")
  @@ (15 :> "Rain") @@ (16 :> "Snow") @@ (17 :> "Stardust")
  @@ (18 :> "ColorSwitch") @@ (19 :> "SwipingRainbow") @@ (20 :> "SoundFlash")
  @@ (21 :> "SoundBars") @@ (22 :> "SoundSlider") @@ (23 :> "SoundShift")
  @@ (24 :> "Ambient") @@ (33 :> "ColorGradient")

C10_WitnessRefused ==
  /\ pc = "done" /\ ty = "Option<Controller>" /\ Len(input) = 70 /\ Selector = 6
  /\ rd.err = InvalidValue("Effect", 6) /\ rd.pos = 9

\* the selector fields: the width of the code on the wire, the codes of the
\* variants, the code that stands for an absent value, the name in the error
EnumField(w, known, none, n) == [width |-> w, codes |-> known, absent |-> none, name |-> n]

EnumFields ==
  ("TemperatureUnit" :> EnumField(1, 0..1, {}, "TemperatureUnit"))
  @@ ("FlowUnit" :> EnumField(1, 0..1, {}, "FlowUnit"))
  @@ ("DisplayBrightness" :> EnumField(1, 0..2, {}, "DisplayBrightness"))
  @@ ("Option<DisplayBrightness>" :> EnumField(1, 0..2, {3}, "Option<DisplayBrightness>"))
  @@ ("ChartSource" :> EnumField(1, 0..6, {}, "ChartSource"))
  @@ ("Medium" :> EnumField(1, 0..1, {}, "Medium"))
  @@ ("ConnectorType" :> EnumField(1, 0..1, {}, "ConnectorType"))
  @@ ("OutputSignal" :> EnumField(1, 0..5, {}, "OutputSignal"))
  @@ ("SoundEffect" :> EnumField(2, 0..5, {}, "SoundEffect"))
  @@ ("Option<DataSource>" :> EnumField(2, 0..13 \cup {28}, {65535}, "DataSource"))

\* the code the first bytes of the input hold, w bytes wide, big-endian
WireCode(w) == IF w = 1 THEN input[1] ELSE 256 * input[1] + input[2]

\* C11: enumerated fields.  Each selector field, decoded from a source that
\* holds its code, succeeds exactly on its known codes (and on the code for
\* an absent value where there is one), consuming the code; every other
\* code fails with InvalidValue carrying the name of the field and the raw
\* code.  The absent code, and only it, yields no value.
C11_EnumeratedFields ==
  (pc = "done" /\ ty \in DOMAIN EnumFields /\ Len(input) >= EnumFields[ty].width) =>
    LET f == EnumFields[ty]
        raw == WireCode(f.width)
    IN IF raw \in f.codes \cup f.absent
       THEN /\ rd.ok /\ rd.pos = f.width
            /\ (~rd.skip /\ f.absent # {}) => (rd.val = None <=> raw \in f.absent)
       ELSE ~rd.ok /\ rd.err = InvalidValue(f.name, raw)

\* C11: the last known code of ChartSource decoded to its variant.
C11_Witness ==
  /\ pc = "done" /\ ty = "ChartSource" /\ ~rd.skip /\ input = <<6>>
  /\ rd.ok /\ rd.val = "SystemVoltage"

\* C11: the first unknown data-source code refused by name and value.
C11_WitnessRefused ==
  /\ pc = "done" /\ ty = "Option<DataSource>" /\ input = <<0, 14>>
  /\ ~rd.ok /\ rd.err = InvalidValue("DataSource", 14)

\* C12 as stated: a controller slot, all 70 bytes of it, whose selector is
\* 0x00 decodes to no controller, whatever its other bytes are.
C12_Original ==
  (pc = "done" /\ ty = "Option<Controller>" /\ Len(input) >= 70 /\ Selector = 0) =>
    (rd.ok /\ rd.pos = 70 /\ (~rd.skip => rd.val = None))

\* C12: no-effect slot.  A controller slot, all 70 bytes of it, whose
\* selector is 0x00 and whose data-source code is a known one (0..13, 28, or
\* 0xFFFF for none) decodes to no controller, never to a controller and never
\* to an error, whatever its other bytes are, once the 61 reserved bytes
\* behind the header are consumed.  With any other data-source code the slot
\* fails with InvalidValue("DataSource", code) before the selector is looked
\* at.
C12_NoEffectSlot ==
  (pc = "done" /\ ty = "Option<Controller>" /\ Len(input) >= 70 /\ Selector = 0) =>
    IF SourceCode \in 0..13 \cup {28, 65535}
    THEN rd.ok /\ rd.pos = 70 /\ (~rd.skip => rd.val = None)
    ELSE ~rd.ok /\ rd.err = InvalidValue("DataSource", SourceCode) /\ rd.pos = 7

\* C12: a slot of selector 0x00 whose reserved bytes are all 0xFF, decoded to
\* no controller, one byte of the source left behind it.
C12_Witness ==
  /\ pc = "done" /\ ty = "Option<Controller>" /\ ~rd.skip /\ Len(input) = 71
  /\ Selector = 0 /\ input[10] = 255 /\ input[70] = 0
  /\ rd.ok /\ rd.val = None /\ rd.pos = 70

\* C12: a slot of selector 0x00 refused for its data-source code.
C12_WitnessRefused ==
  /\ pc = "done" /\ ty = "Option<Controller>" /\ Len(input) = 70 /\ Selector = 0
  /\ ~rd.ok /\ rd.err = InvalidValue("DataSource", 14)

\* the big-endian word the input holds at bytes at and at + 1
WordAt(at) == 256 * input[at] + input[at + 1]

\* bit number k (0 the lowest) of a byte
BitOf(b, k) == (b \div (2 ^ k)) % 2 = 1

\* the four alarm limits in wire order: the bit that gates each, where its
\* bytes lie, and its largest valid value
AlarmLimits ==
  <<[bit |-> 0, at |-> 5, max |-> 3000], [bit |-> 1, at |-> 7, max |-> 10000],
    [bit |-> 2, at |-> 9, max |-> 10000], [bit |-> 3, at |-> 11, max |-> 10000]>>

AlarmLimitValues(v) ==
  <<v.flow_alarm_limit, v.water_temperature_limit, v.external_temperature_limit,
    v.water_quality_limit>>

\* the types the program hands to decode_opt, and their widths on the wire
GatedTypes == [Flow |-> 2, Temperature |-> 2, WaterQuality |-> 2, SourceControl |-> 6]

\* C13, alarm limits: a whole AlarmSettings block decodes exactly when its
\* start-up delay and output signal are valid and every limit whose bit is
\* set is in range; the bytes of a limit whose bit is clear are not
\* validated.  All 13 bytes are consumed either way; a limit is absent when
\* its bit is clear and is the value its two bytes hold when the bit is set.
C13_AlarmLimits ==
  (pc = "done" /\ ty = "AlarmSettings" /\ ~rd.skip /\ Len(input) >= 13) =>
    /\ rd.ok <=> /\ input[4] <= 100 /\ input[13] <= 5
                 /\ \A k \in 1..4 :
                      BitOf(input[2], AlarmLimits[k].bit) =>
                        WordAt(AlarmLimits[k].at) <= AlarmLimits[k].max
    /\ rd.ok =>
         /\ rd.pos = 13
         /\ \A k \in 1..4 :
              AlarmLimitValues(rd.val)[k] =
                IF BitOf(input[2], AlarmLimits[k].bit)
                THEN Some(WordAt(AlarmLimits[k].at)) ELSE None

\* C13, current draw: the override decodes exactly when bit 0x01 is clear or
\* the value is within 500..2000; its 4 bytes are consumed either way, and
\* it is absent with the bit clear and the value read with the bit set.
C13_CurrentDraw ==
  (pc = "done" /\ ty = "Option<CurrentDraw>" /\ ~rd.skip /\ Len(input) >= 4) =>
    /\ rd.ok <=> (BitOf(input[2], 0) => WordAt(3) \in 500..2000)
    /\ rd.ok => /\ rd.pos = 4
                /\ rd.val = IF BitOf(input[2], 0) THEN Some(WordAt(3)) ELSE None

\* C13, decode_opt: over the same bytes, decode_opt with the flag set succeeds
\* exactly when decode does and yields the value decode yields; with the
\* flag clear it succeeds whenever the bytes are there, validating nothing,
\* yields no value and consumes as many bytes as with the flag set.
C13_DecodeOpt ==
  (pc = "done" /\ ty \in DOMAIN GatedTypes /\ ~rd.skip) =>
    LET on == decode_opt(NewReader(input, FALSE), ty, TRUE)
        off == decode_opt(NewReader(input, FALSE), ty, FALSE)
    IN /\ on.ok <=> rd.ok
       /\ rd.ok => on.val = Some(rd.val) /\ on.pos = rd.pos /\ off.pos = on.pos
       /\ off.ok <=> Len(input) >= GatedTypes[ty]
       /\ off.ok => off.val = None /\ off.pos = GatedTypes[ty]

\* C13: optional-field flag gating.  Every flag-gated optional field (the
\* four alarm limits, the current-draw override, and decode_opt over the
\* types it is used with) consumes the same bytes with its flag clear as
\* with it set; clear, it is absent and its bytes are not validated; set,
\* the same bytes are decoded and validated as the present value.
C13_FlagGating == C13_AlarmLimits /\ C13_CurrentDraw /\ C13_DecodeOpt

\* C13: an alarm block with only the flow bit set, its flow limit kept and its
\* water-temperature limit, out of range on the wire, absent.
C13_Witness ==
  /\ pc = "done" /\ ty = "AlarmSettings" /\ ~rd.skip /\ Len(input) = 13
  /\ input[2] = 1 /\ WordAt(7) = 10001
  /\ rd.ok /\ rd.pos = 13
  /\ rd.val.flow_alarm_limit = Some(3000) /\ rd.val.water_temperature_limit = None

\* C13: the same out-of-range limit refused once its bit is set.
C13_WitnessRefused ==
  /\ pc = "done" /\ ty = "AlarmSettings" /\ ~rd.skip /\ Len(input) = 13
  /\ input[2] = 3 /\ WordAt(5) = 3000 /\ WordAt(7) = 10001 /\ input[4] = 100
  /\ input[13] = 5 /\ ~rd.ok

\* C13: a current-draw value below the range, skipped with the bit clear.
C13_WitnessCurrentDraw ==
  /\ pc = "done" /\ ty = "Option<CurrentDraw>" /\ ~rd.skip
  /\ input = <<170, 254, 1, 243>> /\ rd.ok /\ rd.val = None /\ rd.pos = 4

\* the lighting flags byte of a Settings payload: the third byte of the
\* lighting block, which starts at byte 89
LightingFlags == input[89 + 2]

\* Settings::decode on a value reader over the same payload with bit 0x02
\* of the lighting flags byte cleared
LightingOnRun ==
  decode(NewReader([input EXCEPT ![89 + 2] = @ - 2], FALSE), "Settings")

\* C14: lighting disabled.  A Settings payload whose lighting flags byte has
\* bit 0x02 set, once decoded, has no lighting settings; the eight
\* controller slots are consumed all the same, the decode ending at the end
\* of the payload; and wherever the same bytes decode with that bit clear,
\* they decode with it set, every field outside the lighting block (system,
\* sensor, alarms, display) having the same value.
C14_LightingDisabled ==
  (pc = "done" /\ ty = "Settings" /\ ~rd.skip /\ Len(input) = PayloadLen
     /\ BitOf(LightingFlags, 1)) =>
    /\ rd.ok => rd.val.lighting = None /\ rd.pos = PayloadLen
    /\ LightingOnRun.ok =>
         /\ rd.ok
         /\ LightingOnRun.val.lighting # None
         /\ rd.val.system = LightingOnRun.val.system
         /\ rd.val.sensor = LightingOnRun.val.sensor
         /\ rd.val.alarms = LightingOnRun.val.alarms
         /\ rd.val.display = LightingOnRun.val.display

\* C14: a payload decoded with lighting off that decodes with lighting on as
\* well, to controllers.
C14_Witness ==
  /\ pc = "done" /\ ty = "Settings" /\ ~rd.skip /\ Len(input) = PayloadLen
  /\ LightingFlags = 255 /\ rd.ok /\ rd.val.lighting = None /\ rd.pos = PayloadLen
  /\ LightingOnRun.ok /\ Len(LightingOnRun.val.lighting.v.strip_controllers) > 0
  /\ rd.val.alarms = LightingOnRun.val.alarms

\* C14: a payload decoded with lighting off whose slots do not decode with
\* lighting on.
C14_WitnessSkipped ==
  /\ pc = "done" /\ ty = "Settings" /\ ~rd.skip /\ Len(input) = PayloadLen
  /\ BitOf(LightingFlags, 1) /\ rd.ok /\ rd.val.lighting = None /\ ~LightingOnRun.ok

\* C14: a payload with lighting off refused for the selector of a slot.
C14_WitnessRefused ==
  /\ pc = "done" /\ ty = "Settings" /\ ~rd.skip /\ Len(input) = PayloadLen
  /\ BitOf(LightingFlags, 1) /\ ~rd.ok /\ rd.err = InvalidValue("Effect", 255)

\* the controller slot j (1..8) of a lighting block: the byte before it, its
\* selector, and Option<Controller>::decode over its 70 bytes alone
SlotAt(j) == 4 + 70 * (j - 1)
SlotSelector(j) == input[SlotAt(j) + 3]
SlotRun(j) ==
  decode(NewReader(SubSeq(input, SlotAt(j) + 1, SlotAt(j) + 70), FALSE),
         "Option<Controller>")

\* the slots among lo..hi whose selector is not zero, in wire order
KeptSlots(lo, hi) ==
  SelectSeq([k \in 1..(hi - lo + 1) |-> lo + k - 1], LAMBDA j : SlotSelector(j) # 0)

\* the controllers the slots among lo..hi hold, in wire order
KeptControllers(lo, hi) ==
  [k \in 1..Len(KeptSlots(lo, hi)) |-> SlotRun(KeptSlots(lo, hi)[k]).val.v]

\* C15: controller collections.  A lighting block decoded with lighting on
\* has in strip_controllers the controllers of those of slots 1..6 whose
\* selector is not zero, and in sensor_controllers those of slots 7..8, each
\* in wire order with the absent slots left out: as many entries as
\* non-zero selectors in the group, at most 6 and 2, the k-th entry being
\* the controller of the k-th such slot (its offset byte included).
C15_ControllerCollections ==
  (pc = "done" /\ ty = "Option<LightingSettings>" /\ ~rd.skip /\ Len(input) = 564
     /\ ~BitOf(input[3], 1) /\ rd.ok) =>
    /\ rd.val.tag = "Some"
    /\ rd.val.v.strip_controllers = KeptControllers(1, 6)
    /\ rd.val.v.sensor_controllers = KeptControllers(7, 8)
    /\ Len(rd.val.v.strip_controllers) <= 6 /\ Len(rd.val.v.sensor_controllers) <= 2
    /\ \A k \in 1..Len(rd.val.v.strip_controllers) :
         rd.val.v.strip_controllers[k].offset = input[SlotAt(KeptSlots(1, 6)[k]) + 1]
    /\ \A k \in 1..Len(rd.val.v.sensor_controllers) :
         rd.val.v.sensor_controllers[k].offset = input[SlotAt(KeptSlots(7, 8)[k]) + 1]

\* C15: a block whose slots 2, 4, 5 and 8 hold an effect: three strip
\* controllers and one sensor controller, in wire order.
C15_Witness ==
  /\ pc = "done" /\ ty = "Option<LightingSettings>" /\ ~rd.skip /\ Len(input) = 564
  /\ rd.ok /\ rd.val.tag = "Some"
  /\ KeptSlots(1, 6) = <<2, 4, 5>> /\ KeptSlots(7, 8) = <<8>>
  /\ Len(rd.val.v.strip_controllers) = 3 /\ Len(rd.val.v.sensor_controllers) = 1
  /\ rd.val.v.strip_controllers[1].offset = 20
  /\ rd.val.v.strip_controllers[3].offset = 50
  /\ rd.val.v.sensor_controllers[1].offset = 80

\* the big-endian word at bytes at and at + 1, read as two's complement
SignedWordAt(at) == IF WordAt(at) >= 32768 THEN WordAt(at) - 65536 ELSE WordAt(at)

\* C16: flow-correction pairing.  A Settings payload holds ten correction
\* values (bytes 49..68) followed by ten flow values (bytes 69..88); once
\* decoded, element i of sensor.flow_correction is the pair of the i-th flow
\* value and the i-th correction value read, for every i of 1..10.
C16_FlowCorrectionPairing ==
  (pc = "done" /\ ty = "Settings" /\ ~rd.skip /\ Len(input) = PayloadLen /\ rd.ok) =>
    /\ Len(rd.val.sensor.flow_correction) = 10
    /\ \A i \in 1..10 :
         rd.val.sensor.flow_correction[i] =
           <<WordAt(69 + 2 * (i - 1)), SignedWordAt(49 + 2 * (i - 1))>>

\* C16: a decoded payload whose twenty values are not those of the base
\* payloads, the second pair made of the second flow and the second
\* correction value.
C16_Witness ==
  /\ pc = "done" /\ ty = "Settings" /\ ~rd.skip /\ Len(input) = PayloadLen /\ rd.ok
  /\ WordAt(71) = 1135 /\ SignedWordAt(51) = -4630
  /\ rd.val.sensor.flow_correction[2] = <<1135, -4630>>
  /\ rd.val.sensor.flow_correction[1] # rd.val.sensor.flow_correction[2]

\* C17: multi-byte integers are big-endian.  Over a source that begins with
\* the bytes b0, b1, read_u16be (the decode of u16) yields 256 * b0 + b1 and
\* read_i16be (the decode of i16) that value as 16-bit two's complement,
\* each consuming exactly two bytes; read_u8 (the decode of u8) yields b0
\* and consumes exactly one byte.  A SkipReader consumes the same bytes.
C17_BigEndian ==
  /\ (pc = "done" /\ ty = "u8" /\ Len(input) >= 1) =>
       rd.ok /\ rd.pos = 1 /\ (~rd.skip => rd.val = input[1])
  /\ (pc = "done" /\ ty = "u16" /\ Len(input) >= 2) =>
       /\ rd.ok /\ rd.pos = 2
       /\ ~rd.skip => /\ rd.val = 256 * input[1] + input[2]
                      /\ rd.val \div 256 = input[1] /\ rd.val % 256 = input[2]
  /\ (pc = "done" /\ ty = "i16" /\ Len(input) >= 2) =>
       /\ rd.ok /\ rd.pos = 2
       /\ ~rd.skip =>
            /\ rd.val = IF 256 * input[1] + input[2] >= 32768
                        THEN 256 * input[1] + input[2] - 65536
                        ELSE 256 * input[1] + input[2]
            /\ rd.val \in -32768..32767
            /\ (rd.val < 0) <=> (input[1] >= 128)

\* C17: the bytes 0x7F 0x00 read as the unsigned word 32512, a byte left
\* behind them.
C17_Witness ==
  /\ pc = "done" /\ ty = "u16" /\ ~rd.skip /\ input = <<127, 0, 170>>
  /\ rd.ok /\ rd.val = 32512 /\ rd.pos = 2

\* C17: the bytes 0x80 0xFF read as the signed word -32513.
C17_WitnessSigned ==
  /\ pc = "done" /\ ty = "i16" /\ ~rd.skip /\ input = <<128, 255>>
  /\ rd.ok /\ rd.val = -32513 /\ rd.pos = 2

\* C17: one byte read of a source of two.
C17_WitnessByte ==
  /\ pc = "done" /\ ty = "u8" /\ ~rd.skip /\ input = <<255, 170>>
  /\ rd.ok /\ rd.val = 255 /\ rd.pos = 1

\* the flags word of a controller slot, and the two source-control blocks
\* behind its header as SourceControl::decode reads them (6 bytes each)
SlotFlags == WordAt(4)
BlockAt(at) ==
  [input_min |-> WordAt(at), input_max |-> WordAt(at + 2),
   output_min |-> input[at + 4], output_max |-> input[at + 5]]
FirstBlock == BlockAt(10)
SecondBlock == BlockAt(16)

SourceControlFields ==
  {"source_control_brightness", "source_control_saturation", "source_control_speed",
   "source_control_intensity", "source_control_rotation"}

\* the block is kept in a source-control field of the decoded effect
Retained(block) ==
  \E f \in SourceControlFields \cap DOMAIN rd.val.v.effect :
    rd.val.v.effect[f] = Some(block)

\* a controller slot, whole, decoded to a controller on a value reader
DecodedSlot ==
  /\ pc = "done" /\ ty = "Option<Controller>" /\ ~rd.skip /\ Len(input) >= 70
  /\ rd.ok /\ rd.val.tag = "Some"

\* C18 as stated: in every decoded controller slot the first block is
\* retained exactly when flags bit 0x4000 is set and the second exactly when
\* bit 0x8000 is set, whatever the selector; both blocks are consumed.
C18_Original ==
  DecodedSlot =>
    /\ Retained(FirstBlock) <=> BitOf(SlotFlags \div 256, 6)
    /\ Retained(SecondBlock) <=> BitOf(SlotFlags \div 256, 7)
    /\ rd.pos = 70

\* the selectors by what they do with the two blocks
GatedBoth == {1, 2, 3, 4, 5, 7, 8, 9, 10, 11, 12, 15, 16, 17, 19}
GatedFirst == {13, 14, 21, 33}
GatedSwapped == {18}
GatedNone == {20, 22, 23, 24}

\* C18: source-control gating by effect case.  Both blocks' bytes are
\* consumed in every decoded slot.  For selectors 0x01..0x05, 0x07..0x0C,
\* 0x0F..0x11 and 0x13 the first block is retained exactly when flags bit
\* 0x4000 is set and the second exactly when bit 0x8000 is set.  For 0x0D,
\* 0x0E, 0x15 and 0x21 the first block is retained exactly when bit 0x4000
\* is set and the second never.  For 0x12 the first block is retained
\* exactly when bit 0x8000 is set and the second never.  For 0x14, 0x16,
\* 0x17 and 0x18 neither block is retained.
C18_GatingByCase ==
  DecodedSlot =>
    LET b0 == BitOf(SlotFlags \div 256, 6)
        b1 == BitOf(SlotFlags \div 256, 7)
    IN /\ rd.pos = 70
       /\ Selector \in GatedBoth \cup GatedFirst \cup GatedSwapped \cup GatedNone
       /\ Selector \in GatedBoth =>
            (Retained(FirstBlock) <=> b0) /\ (Retained(SecondBlock) <=> b1)
       /\ Selector \in GatedFirst =>
            (Retained(FirstBlock) <=> b0) /\ ~Retained(SecondBlock)
       /\ Selector \in GatedSwapped =>
            (Retained(FirstBlock) <=> b1) /\ ~Retained(SecondBlock)
       /\ Selector \in GatedNone =>
            ~Retained(FirstBlock) /\ ~Retained(SecondBlock)

\* C18: a slot of selector 0x12 with bit 0x8000 alone, its first block
\* retained.
C18_Witness ==
  /\ DecodedSlot /\ Selector = 18 /\ SlotFlags = 32768
  /\ rd.val.v.effect.source_control_brightness = Some(FirstBlock)
  /\ rd.pos = 70

\* C18: a slot of selector 0x01 with both bits, both blocks retained.
C18_WitnessBoth ==
  /\ DecodedSlot /\ Selector = 1 /\ SlotFlags = 49152
  /\ rd.val.v.effect.source_control_brightness = Some(FirstBlock)
  /\ rd.val.v.effect.source_control_saturation = Some(SecondBlock)
  /\ FirstBlock # SecondBlock

\* C18: a slot of selector 0x0D with both bits, its second block dropped.
C18_WitnessFirstOnly ==
  /\ DecodedSlot /\ Selector = 13 /\ SlotFlags = 49152
  /\ Retained(FirstBlock) /\ ~Retained(SecondBlock)

\* C19 as stated: a SourceControl block occupies 4 bytes, so a source that
\* holds 4 bytes or more decodes, retained or skipped, and 4 bytes of it are
\* consumed.
C19_Original ==
  (pc = "done" /\ ty = "SourceControl" /\ Len(input) >= 4) => (rd.ok /\ rd.pos = 4)

\* C19: a SourceControl block occupies 6 bytes on the wire: input-min and
\* input-max as big-endian words, output-min and output-max as one byte
\* each.  Retained (a value reader, decode_opt with the flag set) or skipped
\* (a SkipReader, decode_opt with the flag clear), it decodes exactly when
\* the source holds 6 bytes, consumes those 6 bytes, and fails with IoError
\* on a shorter source.
C19_SourceControlWidth ==
  (pc = "done" /\ ty = "SourceControl") =>
    LET on == decode_opt(NewReader(input, FALSE), ty, TRUE)
        off == decode_opt(NewReader(input, FALSE), ty, FALSE)
    IN /\ rd.ok <=> Len(input) >= 6
       /\ rd.ok => rd.pos = 6 /\ on.ok /\ on.pos = 6 /\ off.ok /\ off.pos = 6
       /\ ~rd.ok => rd.err = IoError /\ ~on.ok /\ ~off.ok
       /\ (rd.ok /\ ~rd.skip) => rd.val = BlockAt(1) /\ on.val = Some(BlockAt(1))

\* C19: a block of six bytes and one more decoded on a value reader, the
\* seventh byte left.
C19_Witness ==
  /\ pc = "done" /\ ty = "SourceControl" /\ ~rd.skip
  /\ input = <<255, 254, 1, 0, 128, 127, 170>>
  /\ rd.ok /\ rd.pos = 6
  /\ rd.val = [input_min |-> 65534, input_max |-> 256, output_min |-> 128,
               output_max |-> 127]

\* C19: a source of four bytes refused, skipped or not.
C19_WitnessShort ==
  /\ pc = "done" /\ ty = "SourceControl" /\ rd.skip /\ Len(input) = 4
  /\ ~rd.ok /\ rd.err = IoError

\* the color the four bytes from `at` on hold, as Color::decode reads them
ColorAt(at) ==
  [h |-> 60 * 255 * input[at] + 60 * input[at + 1], s |-> input[at + 2],
   v |-> input[at + 3]]

\* the arms that read a color count: where in the slot the count and the
\* first entry of the color list lie, how many entries the list can hold,
\* and whether an entry is a tuple that begins with the color
CountLayout(e) ==
  CASE e = 4 -> [count |-> 24, list |-> 50, cap |-> 5, tuple |-> FALSE]
    [] e = 5 -> [count |-> 24, list |-> 46, cap |-> 6, tuple |-> FALSE]
    [] e = 7 -> [count |-> 26, list |-> 50, cap |-> 5, tuple |-> FALSE]
    [] e = 10 -> [count |-> 28, list |-> 50, cap |-> 5, tuple |-> FALSE]
    [] e = 11 -> [count |-> 28, list |-> 46, cap |-> 6, tuple |-> FALSE]
    [] e \in {13, 21} -> [count |-> 28, list |-> 54, cap |-> 4, tuple |-> TRUE]
    [] e = 18 -> [count |-> 22, list |-> 46, cap |-> 6, tuple |-> TRUE]
    [] e = 33 -> [count |-> 28, list |-> 58, cap |-> 3, tuple |-> TRUE]

CountSelectors == {4, 5, 7, 10, 11, 13, 21, 18, 33}

\* the arms that keep one entry more than the count
CountPlusOne == {13, 21, 18}

DeclaredCount == WordAt(CountLayout(Selector).count)

\* the color list of the decoded effect holds the first n colors of its
\* slots, in wire order
HoldsFirst(n) ==
  LET l == CountLayout(Selector)
      colors == rd.val.v.effect.colors
  IN /\ Len(colors) = n
     /\ \A k \in 1..n :
          (IF l.tuple THEN colors[k][1] ELSE colors[k]) = ColorAt(l.list + 4 * (k - 1))

\* C20 as stated: in every decoded slot whose arm reads a count c, all color
\* slots are consumed and the color list holds exactly the first c entries,
\* fewer only when c exceeds the capacity of the list.
C20_Original ==
  (DecodedSlot /\ Selector \in CountSelectors) =>
    /\ rd.pos = 70
    /\ HoldsFirst(Min(DeclaredCount, CountLayout(Selector).cap))

\* C20: declared color count.  In every decoded slot whose arm reads a count
\* c, all color slots are consumed, none of them validated.  For Blink,
\* ColorChange, Sequence, Wave, ColorSequence and ColorGradient the list
\* holds the first c entries of its slots in wire order; for BarGraph,
\* SoundBars and ColorSwitch it holds the first c + 1 entries; in both cases
\* no more than the list can hold (5 for Blink, Sequence and Wave, whose
\* first color slot is the background; 6 for ColorChange, ColorSequence and
\* ColorSwitch; 4 for BarGraph and SoundBars; 3 for ColorGradient).
C20_DeclaredCount ==
  (DecodedSlot /\ Selector \in CountSelectors) =>
    /\ rd.pos = 70
    /\ HoldsFirst(Min(DeclaredCount + (IF Selector \in CountPlusOne THEN 1 ELSE 0),
                      CountLayout(Selector).cap))
    /\ Selector \in {4, 7, 10} => rd.val.v.effect.background = ColorAt(46)

\* C20: a bar graph that declares two colors and keeps three.
C20_Witness ==
  /\ DecodedSlot /\ Selector = 13 /\ DeclaredCount = 2
  /\ Len(rd.val.v.effect.colors) = 3
  /\ rd.val.v.effect.colors[3][1] = ColorAt(62)
  /\ ColorAt(62) # ColorAt(54)

\* C20: a blink effect that declares two colors and keeps the two behind
\* its background.
C20_WitnessBlink ==
  /\ DecodedSlot /\ Selector = 4 /\ DeclaredCount = 2
  /\ rd.val.v.effect.colors = <<ColorAt(50), ColorAt(54)>>
  /\ rd.val.v.effect.background = ColorAt(46)

\* C20: a color change that declares seven colors and keeps the six there
\* are.
C20_WitnessCapacity ==
  /\ DecodedSlot /\ Selector = 5 /\ DeclaredCount = 7
  /\ Len(rd.val.v.effect.colors) = 6

\* C21: fixed slot width.  Every controller slot that decodes without error
\* has consumed exactly 70 bytes, whatever its effect selector, its flags
\* word and its declared color count are, on a value reader and on a
\* SkipReader alike, and whatever follows the slot in the source.
C21_FixedSlotWidth ==
  (pc = "done" /\ ty = "Option<Controller>" /\ rd.ok) => rd.pos = 70

\* C21: a slot of selector 0x12 that declares 65535 colors, both
\* source-control bits set, taken through a SkipReader: 70 bytes.
C21_Witness ==
  /\ pc = "done" /\ ty = "Option<Controller>" /\ rd.skip /\ rd.ok
  /\ Selector = 18 /\ SlotFlags = 49152 /\ WordAt(22) = 65535
  /\ rd.pos = 70 /\ rd.val = Phantom

\* C21: a slot of selector 0x00 and one of selector 0x01 with a byte behind
\* them, decoded on a value reader: 70 bytes of the 71.
C21_WitnessTail ==
  /\ pc = "done" /\ ty = "Option<Controller>" /\ ~rd.skip /\ rd.ok
  /\ Len(input) = 71 /\ Selector = 0 /\ rd.pos = 70

\* Frame::decode, on the same kind of reader, over the first 682 bytes of
\* the source alone
FrameAloneRun == decode(NewReader(SubSeq(input, 1, 682), rd.skip), "Frame")

\* C22: fixed frame width.  Every Frame decode that succeeds has consumed
\* exactly 682 bytes of the source (1 operation code, 679 payload bytes and
\* 2 checksum bytes), whatever the field values, the presence flags and the
\* lighting state are; the bytes behind the checksum are not read, the
\* result being that of the decode of the 682 bytes alone.
C22_FixedFrameWidth ==
  (pc = "done" /\ ty = "Frame" /\ rd.ok) =>
    /\ rd.pos = 682
    /\ Len(input) >= 682
    /\ FrameAloneRun.ok /\ FrameAloneRun.val = rd.val /\ FrameAloneRun.pos = rd.pos

\* C22: a frame with lighting disabled and three bytes behind its checksum,
\* decoded on a value reader.
C22_Witness ==
  /\ pc = "done" /\ ty = "Frame" /\ ~rd.skip /\ rd.ok
  /\ Len(input) = 685 /\ input[92] = 255
  /\ rd.val.settings.lighting = None /\ rd.pos = 682

\* C22: a frame with lighting enabled and all four alarm limits present.
C22_WitnessLimits ==
  /\ pc = "done" /\ ty = "Frame" /\ ~rd.skip /\ rd.ok
  /\ input[668] = 15 /\ rd.val.settings.lighting # None
  /\ rd.val.settings.alarms.water_quality_limit # None /\ rd.pos = 682

\* the selectors Option<Controller>::decode has an arm for, 0x00 included
KnownSelectors == (0..5) \cup (7..24) \cup {33}
KnownSources == (0..13) \cup {28, 65535}

\* the selector of controller slot j (1..8) of a Settings payload that
\* begins behind the first `before` bytes of the source
PayloadSelector(before, j) == input[before + 92 + 70 * (j - 1) + 3]

\* Option<Controller>::decode through a SkipReader over slot j of a
\* Settings payload
SlotSkipRun(j) ==
  decode(NewReader(SubSeq(input, 93 + 70 * (j - 1), 92 + 70 * j), TRUE),
         "Option<Controller>")

\* Settings::decode over the payload with the bytes of its eight slots zeroed
BlankedRun ==
  decode(NewReader([k \in 1..Len(input) |-> IF k \in 93..652 THEN 0 ELSE input[k]],
                   FALSE), "Settings")

\* C23, every type: a decode through a SkipReader that fails fails with
\* IoError, InvalidValue or ChecksumMismatch, never with RangeError.
C23_NoRangeError ==
  (pc = "done" /\ rd.skip /\ ~rd.ok) =>
    rd.err.kind \in {"IoError", "InvalidValue", "ChecksumMismatch"}

\* C23, a slot: a controller slot of 70 bytes goes through a SkipReader
\* exactly when its data-source code and its selector are known ones and,
\* for selector 0x16, its four sound-effect codes are; otherwise it fails
\* with InvalidValue naming the first of them that is not.  No other byte of
\* the slot is looked at.
C23_SkippedSlot ==
  (pc = "done" /\ ty = "Option<Controller>" /\ rd.skip /\ Len(input) >= 70) =>
    LET sounds == {k \in 0..3 : WordAt(22 + 2 * k) > 5}
        first == CHOOSE k \in sounds : \A m \in sounds : k <= m
    IN CASE SourceCode \notin KnownSources ->
              ~rd.ok /\ rd.err = InvalidValue("DataSource", SourceCode)
         [] SourceCode \in KnownSources /\ Selector \notin KnownSelectors ->
              ~rd.ok /\ rd.err = InvalidValue("Effect", Selector)
         [] SourceCode \in KnownSources /\ Selector = 22 /\ sounds # {} ->
              ~rd.ok /\ rd.err = InvalidValue("SoundEffect", WordAt(22 + 2 * first))
         [] OTHER -> rd.ok /\ rd.pos = 70

\* C23, lighting disabled: a Settings payload with bit 0x02 of the lighting
\* flags set decodes on a value reader exactly when each of its eight slots
\* goes through a SkipReader and the payload decodes with the slots zeroed;
\* with an unknown selector in a slot it fails with InvalidValue.
C23_DisabledSettings ==
  (pc = "done" /\ ty = "Settings" /\ ~rd.skip /\ Len(input) = PayloadLen
     /\ BitOf(LightingFlags, 1)) =>
    /\ rd.ok <=> (BlankedRun.ok /\ \A j \in 1..8 : SlotSkipRun(j).ok)
    /\ (\E j \in 1..8 : PayloadSelector(0, j) \notin KnownSelectors) =>
         ~rd.ok /\ rd.err.kind = "InvalidValue"

\* C23, frames: a frame with lighting disabled and an unknown selector in
\* one of its slots fails with InvalidValue.
C23_DisabledFrame ==
  (pc = "done" /\ ty = "Frame" /\ Len(input) >= 682 /\ input[1] = 3
     /\ BitOf(input[92], 1)
     /\ \E j \in 1..8 : PayloadSelector(1, j) \notin KnownSelectors) =>
    ~rd.ok /\ rd.err.kind = "InvalidValue"

\* C23: a SkipReader suppresses the range validation and not the selector
\* validation.  Decoding through a SkipReader never fails with RangeError,
\* while an unknown effect selector, data-source code or sound-effect code
\* in the skipped bytes fails with InvalidValue; so a frame with lighting
\* disabled is refused for an unknown selector in one of its eight slots
\* and decodes when a slot only holds out-of-range percent or width values.
C23_SkipValidation ==
  C23_NoRangeError /\ C23_SkippedSlot /\ C23_DisabledSettings /\ C23_DisabledFrame

\* C23: a frame with lighting disabled, decoded although the first slot
\* holds a word that the value reader refuses with RangeError once lighting
\* is on.
C23_Witness ==
  /\ pc = "done" /\ ty = "Frame" /\ ~rd.skip /\ Len(input) = 682
  /\ BitOf(input[92], 1) /\ input[115] = 255 /\ rd.ok
  /\ rd.val.settings.lighting = None
  /\ decode(NewReader(SubSeq(input, 94, 163), FALSE), "Option<Controller>").err.kind
       = "RangeError"

\* C23: a frame with lighting disabled refused for the selector of its
\* first slot.
C23_WitnessRefused ==
  /\ pc = "done" /\ ty = "Frame" /\ ~rd.skip /\ Len(input) = 682
  /\ BitOf(input[92], 1) /\ input[96] = 255
  /\ ~rd.ok /\ rd.err = InvalidValue("Effect", 255)

\* C23: a slot refused through the SkipReader for a sound-effect code.
C23_WitnessSound ==
  /\ pc = "done" /\ ty = "Option<Controller>" /\ rd.skip /\ Len(input) = 70
  /\ Selector = 22 /\ ~rd.ok /\ rd.err.kind = "InvalidValue"
  /\ rd.err.name = "SoundEffect"

\* C23: a wrapped value out of its range taken through the SkipReader.
C23_WitnessWrapped ==
  /\ pc = "done" /\ ty = "EffectPercent" /\ rd.skip /\ rd.ok
  /\ ~ValueRun.ok /\ ValueRun.err.kind = "RangeError"

\* the errors of enum Error
TypedErrors == {"IoError", "InvalidValue", "RangeError", "ChecksumMismatch"}

\* T::decode_opt(reader, false) and T::skip_bytes(reader) on a value reader
\* over the same bytes
ClearedRun == decode_opt(NewReader(input, FALSE), ty, FALSE)
SkipBytesRun == skip_bytes(NewReader(input, FALSE), ty)

\* C24: no usage fault in skip mode.  For every decodable type and every
\* input, a decode through a SkipReader ends in Ok(PhantomData) or in an
\* error of enum Error: no closure handed to R::guard is called, so no
\* method of the skip guard is, and nothing panics.  The same holds where
\* the program itself goes through the SkipReader: skip_bytes answers Ok(())
\* or the error of the skipped decode, decode_opt with the flag clear
\* answers an absent value or that error, and a Settings payload with
\* lighting disabled has no lighting settings.
C24_NoUsageFault ==
  /\ (pc = "done" /\ rd.skip) =>
       /\ rd.val # UsageFault
       /\ rd.ok => rd.val = Phantom
       /\ ~rd.ok => rd.err.kind \in TypedErrors
  /\ (pc = "done" /\ ~rd.skip) =>
       /\ SkipBytesRun.ok => SkipBytesRun.val = Unit /\ ~SkipBytesRun.skip
       /\ ~SkipBytesRun.ok => SkipBytesRun.err.kind \in TypedErrors
       /\ ClearedRun.ok <=> SkipBytesRun.ok
       /\ ClearedRun.ok => ClearedRun.val = None /\ ClearedRun.pos = SkipBytesRun.pos
       /\ ~ClearedRun.ok => ClearedRun.err = SkipBytesRun.err
  /\ (pc = "done" /\ ~rd.skip /\ ty = "Settings" /\ Len(input) = PayloadLen
        /\ BitOf(LightingFlags, 1) /\ rd.ok) => rd.val.lighting = None

\* C24: an array of ten flows, each pushed under R::guard, taken through
\* the SkipReader.
C24_Witness ==
  /\ pc = "done" /\ rd.skip /\ ty = "[Flow; 10]" /\ Len(input) = 20
  /\ rd.ok /\ rd.val = Phantom /\ rd.pos = 20

\* C24: a Settings payload taken through the SkipReader.
C24_WitnessSettings ==
  /\ pc = "done" /\ rd.skip /\ ty = "Settings" /\ rd.ok /\ rd.val = Phantom
  /\ rd.pos = PayloadLen

\* C24: a controller slot skipped by skip_bytes and by decode_opt on a value
\* reader.
C24_WitnessCleared ==
  /\ pc = "done" /\ ~rd.skip /\ ty = "Option<Controller>" /\ Len(input) = 70
  /\ Selector = 13 /\ rd.ok /\ ClearedRun.ok /\ ClearedRun.val = None /\ ClearedRun.pos = 70
  /\ SkipBytesRun.val = Unit

\* C25: decoding in value mode never panics: whatever the input bytes,
\* Frame::decode and every decoder below it end with a value or with one of
\* the four kinds of enum Error.  A declared color count of any size is cut
\* to the colors the slot holds, so no effect list outgrows its ArrayVec,
\* every first color taken out of the six exists, and the sound effects
\* fill all four and both of their sub-effects.
C25_ValueModeTotal ==
  (pc = "done" /\ ~rd.skip) =>
    /\ rd.ok \/ rd.err.kind \in TypedErrors
    /\ (DecodedSlot /\ Selector \in CountSelectors) => Len(rd.val.v.effect.colors) <= CountLayout(Selector).cap
    /\ (DecodedSlot /\ Selector = 22) => Len(rd.val.v.effect.effects) = 4
    /\ (DecodedSlot /\ Selector = 23) => Len(rd.val.v.effect.effects) = 2
C25_StepwiseTotal == (pc = "done") => (rd.ok \/ rd.err.kind \in TypedErrors)
C25_Witness == DecodedSlot /\ Selector = 4 /\ DeclaredCount = 65535 /\ Len(rd.val.v.effect.colors) = 5 /\ rd.val.v.effect.background = ColorAt(46)
C25_WitnessBarGraph == DecodedSlot /\ Selector = 13 /\ DeclaredCount = 65535 /\ Len(rd.val.v.effect.colors) = 4
C25_WitnessFrame == pc = "done" /\ ty = "Frame" /\ ~rd.skip /\ ~rd.ok /\ rd.err.kind = "IoError"
C25_WitnessSound == DecodedSlot /\ Selector = 22 /\ Len(rd.val.v.effect.effects) = 4

\* C26: in a decoded BarGraph/SoundBars slot (selectors 0x0D and 0x15), entry
\* i (0..3) of the colors list is the i-th of the four slot colors, with the
\* start value for i = 0 and the (i - 1)-th of the three color values that
\* follow the count for i = 1..3, and with blink true exactly when bit 7 + i
\* of the flags word is set; the list is the first color_count + 1 such
\* entries, four at most.
BarGraphValueAt(i) == IF i = 0 THEN WordAt(22) ELSE WordAt(30 + 2 * (i - 1))
BarGraphEntry(i) == <<ColorAt(54 + 4 * i), BarGraphValueAt(i), BitOf(SlotFlags, 7 + i)>>
C26_BarGraphEntries ==
  (DecodedSlot /\ Selector \in {13, 21}) =>
    /\ Len(rd.val.v.effect.colors) = Min(DeclaredCount + 1, 4)
    /\ \A i \in 0..(Len(rd.val.v.effect.colors) - 1) :
          rd.val.v.effect.colors[i + 1] = BarGraphEntry(i)
C26_Witness ==
  /\ DecodedSlot /\ Selector = 13 /\ DeclaredCount = 2 /\ SlotFlags = 640
  /\ rd.val.v.effect.colors = <<BarGraphEntry(0), BarGraphEntry(1), BarGraphEntry(2)>>
  /\ BarGraphEntry(0)[3] /\ ~BarGraphEntry(1)[3] /\ BarGraphEntry(2)[3]
  /\ BarGraphEntry(0)[2] # BarGraphEntry(1)[2] /\ BarGraphEntry(1)[2] # BarGraphEntry(2)[2]
C26_WitnessSoundBars ==
  /\ DecodedSlot /\ Selector = 21 /\ DeclaredCount = 4 /\ SlotFlags = 1024
  /\ Len(rd.val.v.effect.colors) = 4 /\ rd.val.v.effect.colors[4][3]
  /\ ~rd.val.v.effect.colors[3][3]

\* C27: the selectors that share an arm differ in the case tag only.  Two
\* controller slots that are equal byte for byte except for the selector,
\* with selectors 0x08 and 0x09, two of 0x0F, 0x10 and 0x11, or 0x0D and
\* 0x15, decode to controllers whose effects hold the same field values
\* under different case tags, or fail with the same error; both decodes
\* consume the same number of bytes.
ShapeGroups == {{8, 9}, {15, 16, 17}, {13, 21}}
Sibling(e) == decode(NewReader([input EXCEPT ![3] = e], rd.skip), ty)
SameButTag(a, b) ==
  /\ a.ok = b.ok /\ a.err = b.err /\ a.pos = b.pos
  /\ (a.ok /\ ~a.skip) =>
        /\ a.val.tag = "Some" /\ b.val.tag = "Some"
        /\ [a.val.v EXCEPT !.effect.case = ""] = [b.val.v EXCEPT !.effect.case = ""]
        /\ a.val.v.effect.case # b.val.v.effect.case
C27_ShapeSharing ==
  (pc = "done" /\ ty = "Option<Controller>" /\ Len(input) >= 3) =>
    \A g \in ShapeGroups :
      Selector \in g => \A e \in g \ {Selector} : SameButTag(rd, Sibling(e))
C27_Witness ==
  /\ DecodedSlot /\ Selector = 9 /\ rd.val.v.effect.case = "Laser"
  /\ rd.val.v.effect.circular /\ Sibling(8).val.v.effect.case = "Scanner"
  /\ Sibling(8).val.v.effect.circular
C27_WitnessRain ==
  /\ DecodedSlot /\ Selector = 16 /\ rd.val.v.effect.case = "Snow"
  /\ Sibling(15).val.v.effect.case = "Rain" /\ Sibling(17).val.v.effect.case = "Stardust"
C27_WitnessBars ==
  /\ DecodedSlot /\ Selector = 21 /\ rd.val.v.effect.case = "SoundBars"
  /\ Sibling(13).val.v.effect.case = "BarGraph" /\ Len(rd.val.v.effect.colors) = 3
C27_WitnessRefused ==
  /\ pc = "done" /\ ty = "Option<Controller>" /\ Len(input) = 70 /\ Selector = 17
  /\ ~rd.skip /\ ~rd.ok /\ rd.err.kind = "RangeError" /\ Sibling(15).err = rd.err
C27_WitnessShort ==
  /\ pc = "done" /\ ty = "Option<Controller>" /\ Len(input) = 40 /\ Selector = 13
  /\ ~rd.ok /\ rd.err.kind = "IoError" /\ ~Sibling(21).ok

\* C28: Option<NextPageInterval> on a value reader is three-way on its one
\* byte v: 3..60 decodes to the present interval v, a byte above 60 to an
\* absent interval without error, and 0..2 fails with
\* InvalidValue("NextPageInterval", v), not with a RangeError.  One byte is
\* consumed in each of the three cases.
NextPageRun == pc = "done" /\ ty = "Option<NextPageInterval>" /\ ~rd.skip /\ Len(input) >= 1
C28_NextPageInterval ==
  NextPageRun =>
    /\ rd.pos = 1
    /\ input[1] \in 3..60 => (rd.ok /\ rd.val = Some(input[1]))
    /\ input[1] > 60 => (rd.ok /\ rd.val = None)
    /\ input[1] \in 0..2 => (~rd.ok /\ rd.err = InvalidValue("NextPageInterval", input[1]))
C28_Witness == NextPageRun /\ input[1] = 2 /\ ~rd.ok /\ rd.err.kind = "InvalidValue" /\ rd.pos = 1
C28_WitnessPresent == NextPageRun /\ input[1] = 60 /\ rd.val = Some(60) /\ Len(input) = 2
C28_WitnessAbsent == NextPageRun /\ input[1] = 61 /\ rd.ok /\ rd.val = None /\ rd.pos = 1

\* C29: the bit-flag fields never reject their input.  For StandbyFlags,
\* PowerFlags, AlarmFlags, DisplayFlags (one byte) and PageFlags (one
\* big-endian word), every raw value decodes successfully; bit k of the
\* decoded set is set exactly when k is a defined bit of the type and bit k
\* of the raw value is set, so undefined bits are dropped without error.
FlagWidth == [StandbyFlags |-> 1, PowerFlags |-> 1, AlarmFlags |-> 1, DisplayFlags |-> 1, PageFlags |-> 2]
DefinedBits ==
  [StandbyFlags |-> {0, 1, 2, 4, 5, 6, 7}, PowerFlags |-> {0}, AlarmFlags |-> {5, 6, 7},
   DisplayFlags |-> {0, 2, 3, 4, 5}, PageFlags |-> 0..15]
RawFlags == IF FlagWidth[ty] = 1 THEN input[1] ELSE WordAt(1)
FlagRun == pc = "done" /\ ty \in DOMAIN FlagWidth /\ Len(input) >= FlagWidth[ty]
C29_FlagsNeverReject ==
  FlagRun =>
    /\ rd.ok /\ rd.pos = FlagWidth[ty]
    /\ ~rd.skip => /\ rd.val \in 0..65535
                   /\ \A k \in 0..15 :
                        BitOf(rd.val, k) <=> (k \in DefinedBits[ty] /\ BitOf(RawFlags, k))
C29_Witness == FlagRun /\ ty = "StandbyFlags" /\ input[1] = 255 /\ ~rd.skip /\ rd.ok /\ rd.val = 247
C29_WitnessAlarm == FlagRun /\ ty = "AlarmFlags" /\ input[1] = 31 /\ ~rd.skip /\ rd.ok /\ rd.val = 0
C29_WitnessDisplay == FlagRun /\ ty = "DisplayFlags" /\ input[1] = 194 /\ ~rd.skip /\ rd.ok /\ rd.val = 0
C29_WitnessPower == FlagRun /\ ty = "PowerFlags" /\ input[1] = 3 /\ ~rd.skip /\ rd.ok /\ rd.val = 1
C29_WitnessPage == FlagRun /\ ty = "PageFlags" /\ RawFlags = 43690 /\ ~rd.skip /\ rd.val = 43690

\* what a CrcReader over exactly the bytes `bytes` computes once they have
\* been read through it
ReadBack(bytes) ==
  CrcReader_finalize(CrcReader_read_exact(CrcReader_new(NewReader(bytes, FALSE)), Len(bytes)))

\* C30 as stated: after any sequence of write calls, short and failed ones
\* included, finalize returns the CRC-16/USB of the bytes the inner writer
\* accepted, which is what a CrcReader computes over those bytes.
C30_AcceptedBytes ==
  pc = "finalized" => (op_code = Checksum(rd.writer) /\ op_code = ReadBack(rd.writer))

\* C30, what the code does: finalize returns the CRC-16/USB of every buffer
\* handed to write, whole, whatever part of it the inner writer accepted; it
\* is the checksum of the accepted bytes, and of a CrcReader over them, when
\* every call accepted its whole buffer.
C30_OfferedBytes ==
  pc = "finalized" =>
    /\ op_code = Checksum(rd.offered)
    /\ rd.offered = rd.writer => op_code = ReadBack(rd.writer)
C30_Witness ==
  /\ pc = "finalized" /\ rd.offered = <<1, 0, 255>> /\ rd.writer = <<1>>
  /\ op_code = Checksum(<<1, 0, 255>>) /\ op_code # Checksum(<<1>>)
C30_WitnessFailed ==
  /\ pc = "finalized" /\ rd.offered = <<255>> /\ rd.writer = <<>> /\ ~rd.ret.ok
  /\ op_code # ReadBack(<<>>)
C30_WitnessWhole ==
  /\ pc = "finalized" /\ rd.writer = <<0, 255, 1, 0, 255>> /\ rd.offered = rd.writer
  /\ op_code = ReadBack(rd.writer)

====
